---- MODULE Spec2Model ----
(***************************************************************************)
(* A model of the scrape orchestration and result consolidation engine of  *)
(* the F1 merchandise search service: the retry wrapper                    *)
(* (utils/helpers.ts), the scraper service (services/scraper.service.ts),  *)
(* the target registry (config/scraper-targets.ts) and the consolidation   *)
(* pipeline of the search service (services/search.service.ts).  Further  *)
(* parts: searchProducts from its entry (cache, intent, summary, finally), *)
(* filterProductsByIntent, the fetch attempts with their browsers and      *)
(* pages, the "load more" traversals of the F1 Authentics and AI          *)
(* scrapers, the AI extraction, the normalization of raw listings into     *)
(* Products, scrapeWithCheerio, the cache across differing requests, the   *)
(* registry on arbitrary catalogs, the orchestration under fairness, the   *)
(* search API handler with its rate limiter (pages/api/search.ts), two     *)
(* searchProducts calls sharing the browser, the Cache object against the  *)
(* clock (utils/cache.ts) and the limiter of lib/rateLimiter.ts.           *)
(*                                                                         *)
(* Strings whose characters matter (product names, queries, price texts)   *)
(* are sequences of one-character strings.  Relevance scores are kept in   *)
(* half units (twice the source's number) so that the 0.5 bonus stays an   *)
(* integer; price amounts are kept in hundredths.  processingTime is not   *)
(* modelled; scrapedAt and generated ids are modelled only where Products  *)
(* are built from raw listings.                                            *)
(***************************************************************************)
EXTENDS Integers, Sequences, FiniteSets, TLC

VARIABLES
    \* ---- retry wrapper and scrape orchestrator ----
    maxRetries,      \* retryWithBackoff's maxRetries argument
    baseDelay,       \* retryWithBackoff's baseDelay argument
    targets,         \* the targets argument of scrapeMultipleTargets
    mainPc,          \* position of scrapeMultipleTargets: idle, awaiting, returned
    retry,           \* per target index: the state of its retryWithBackoff call
    lastOutcome,     \* per target index: what the latest invocation of fn came
                     \* back with (history, not program state)
    promise,         \* per target index: the promise scrapeTarget returned
    settleOrder,     \* target indices in the order their promises settled
    scraperResults,  \* the value scrapeMultipleTargets returned
    \* ---- search coordinator and consolidator ----
    enabled,         \* per catalog index: the entry's enabled flag
    sPc,             \* position of searchProducts
    searchQuery,     \* the search string sent to the targets
    reqMaxResults,   \* maxResults of the request body
    maxResults,      \* the maxResults argument of searchProducts
    allProducts,     \* products collected from the successful outcomes
    successfulSources,
    uniqueProducts,  \* result of removeDuplicates
    sortedProducts,  \* result of sortByRelevance
    finalProducts,   \* SearchResult.products
    totalFound,      \* SearchResult.totalFound
    \* ---- the whole of searchProducts ----
    cPc,             \* position of searchProducts around the pipeline
    userQuery,       \* the userQuery argument
    intentReply,     \* what the completion behind extractIntent came back
                     \* with (history)
    intent,          \* the intent local
    filteredProducts,\* result of filterProductsByIntent, where it is applied
    summaryReply,    \* what the completion behind generateResponse came
                     \* back with (history)
    summary,         \* the summary local
    cacheStore,      \* the cache: its enabled flag and its entries
    result,          \* what searchProducts returned
    \* ---- rendered fetches: browsers and pages ----
    fetch,           \* per fetch task of a fan-out: its kind, its retry
                     \* index and the position of its attempt
    browser,         \* ScraperService.browser (0 for null)
    f1Browser,       \* F1AuthenticsScraperService.browser
    aiBrowser,       \* AIScraperService.browser
    openBrowsers,    \* browser processes launched and not closed
    openPages,       \* pages opened and not closed
    traversal,       \* a "load more" traversal: its loop state
    \* ---- extraction and normalization of listings ----
    nPc,             \* which of these operations is under way, and where
    aiReply,         \* what the completion behind extractProductsWithAI
                     \* came back with (history)
    aiResult,        \* what scrapeTargetWithAI returned
    rawListing,      \* the raw listing handed to transformRawProduct
    clock,           \* the last reading of the wall clock
    built,           \* the Products built from rawListing, in order
    elements,        \* the product elements of a static page, in page order
    returned,        \* what scrapeWithCheerio returned
    \* ---- the target registry on its own ----
    registry,        \* the catalog array of a registry
    listed,          \* what getEnabledTargets returned
    found,           \* the last call of getTargetById: the id and what
                     \* came back, <<>> for undefined or the one entry
    \* ---- the API handlers and their rate limiters ----
    requestCounts,   \* the Map of checkRateLimit: per ip, its record
    limiterStore,    \* the Map store of lib/rateLimiter: per ip, its
                     \* timestamps
    passed,          \* per ip: how many calls passed the limiter at each
                     \* instant of the last window (history)
    response,        \* the last request and the response it was given
    \* ---- requests side by side, and the cache against the clock ----
    reqPc,           \* per searchProducts call in flight: its position
    timedCache,      \* a Cache object: enabled, ttl (ms) and its store
    got              \* the last call of Cache.get: key, instant, value

orchVars == <<maxRetries, baseDelay, targets, mainPc, retry, lastOutcome,
              promise, settleOrder, scraperResults>>

searchVars == <<enabled, sPc, searchQuery, reqMaxResults, maxResults,
                allProducts, successfulSources, uniqueProducts,
                sortedProducts, finalProducts, totalFound>>

coordVars == <<cPc, userQuery, intentReply, intent, filteredProducts,
               summaryReply, summary, cacheStore, result>>

fetchVars == <<fetch, browser, f1Browser, aiBrowser, openBrowsers,
               openPages, traversal>>

registryVars == <<registry, listed, found>>

apiVars == <<requestCounts, limiterStore, passed, response>>

serviceVars == <<reqPc, timedCache, got>>

normVars == <<nPc, aiReply, aiResult, rawListing, clock, built, elements,
              returned, registryVars, apiVars, serviceVars>>

vars == <<orchVars, searchVars, coordVars, fetchVars, normVars>>

\* what the orchestrator's steps leave alone
notOrchVars == <<searchVars, coordVars, fetchVars>>

----------------------------------------------------------------------------
(* Bounds of the model.                                                    *)

\* longest target list handed to scrapeMultipleTargets
MaxTargets == 3
\* largest maxRetries argument tried on retryWithBackoff alone
MaxRetryArg == 4
\* longest product list handed to the consolidation pipeline on its own
MaxProducts == 3
\* most catalog entries enabled at once in a search
MaxEnabled == 2

----------------------------------------------------------------------------
(* Values.                                                                 *)

Undefined == "undefined"

Range(s) == {s[i] : i \in 1..Len(s)}

\* config.scraper.maxRetries and config.scraper.retryDelay
ConfigMaxRetries == 3
ConfigRetryDelay == 2000
\* the default of retryWithBackoff's baseDelay parameter
DefaultBaseDelay == 1000

\* The static catalog: the fields of each entry that the orchestration and
\* the consolidation read.
SCRAPER_TARGETS ==
    << [id |-> "f1-authentics",     name |-> "F1 Authentics",
        enabled |-> FALSE, priority |-> 10, requiresJavaScript |-> TRUE],
       [id |-> "redbull-shop",      name |-> "Red Bull Shop",
        enabled |-> FALSE, priority |-> 9,  requiresJavaScript |-> TRUE],
       [id |-> "ebay",              name |-> "eBay",
        enabled |-> TRUE,  priority |-> 8,  requiresJavaScript |-> FALSE],
       [id |-> "f1-official-store", name |-> "F1 Official Store",
        enabled |-> FALSE, priority |-> 0,  requiresJavaScript |-> TRUE],
       [id |-> "fanatics",          name |-> "Fanatics",
        enabled |-> FALSE, priority |-> 0,  requiresJavaScript |-> TRUE],
       [id |-> "depop",             name |-> "Depop",
        enabled |-> FALSE, priority |-> 0,  requiresJavaScript |-> TRUE] >>

\* A Product, reduced to the fields the consolidation reads.
Prod(name, description, availability, amount, source) ==
    [name |-> name, description |-> description, brand |-> <<>>,
     availability |-> availability, amount |-> amount, source |-> source]

\* Product names: "Cap", "cap!", "CAP 1", "Hat".
NameCap     == <<"C", "a", "p">>
NameCapBang == <<"c", "a", "p", "!">>
NameCapOne  == <<"C", "A", "P", " ", "1">>
NameHat     == <<"H", "a", "t">>

\* What a fetch of one target can come back with: an error thrown by the
\* fetcher (an Error with a message, or a value that is no Error), or a
\* product list, possibly empty.
\* Thrown values: kind is "Error" for an Error object, "other" for any other
\* thrown value, and "none" where nothing was thrown.
NoError == [kind |-> "none", message |-> Undefined]

FetchErrors ==
    { [kind |-> "Error", message |-> "timeout of 30000ms exceeded"],
      [kind |-> "other", message |-> Undefined] }

\* The products a target's search page lists, when it lists any.
Listing(t) ==
    CASE t.id = "f1-authentics" ->
             << Prod(NameCap, <<>>, "IN_STOCK", 20, t.name) >>
      [] t.id = "redbull-shop" ->
             << Prod(NameHat, <<>>, "IN_STOCK", 80, t.name),
                Prod(NameCapBang, <<>>, "IN_STOCK", 18, t.name) >>
      [] t.id = "ebay" ->
             << Prod(NameCapBang, NameHat, "OUT_OF_STOCK", 18, t.name),
                Prod(NameCap, <<>>, "IN_STOCK", 25, t.name) >>
      [] t.id = "f1-official-store" ->
             << Prod(NameCapOne, <<>>, "LIMITED_STOCK", 0, t.name) >>
      [] t.id = "fanatics" ->
             << Prod(NameCap, <<>>, "IN_STOCK", 22, t.name) >>
      [] OTHER ->
             << Prod(NameHat, <<>>, "OUT_OF_STOCK", 30, t.name) >>

TargetListings(t) == { <<>>, Listing(t) }

FetchOutcomes(t) ==
    [ok : {TRUE}, products : TargetListings(t), error : {NoError}]
    \cup [ok : {FALSE}, products : {<<>>}, error : FetchErrors]

\* before any invocation of fn has come back
NoOutcome == [ok |-> FALSE, products |-> <<>>, error |-> NoError]

----------------------------------------------------------------------------
(* retryWithBackoff (utils/helpers.ts).  A call is a record: i is the loop *)
(* counter, calls counts the invocations of fn, sleeps lists the delays    *)
(* slept so far, status is inflight (fn was invoked and has not settled),  *)
(* sleeping, returned or thrown.                                           *)

Pow2(n) == IF n <= 0 THEN 1 ELSE 2 ^ n

\* Variant: a backoff that grows linearly instead of doubling.
LinearBackoffDelay(base, i) == base * (i + 1)

\* const delay = baseDelay * Math.pow(2, i)
BackoffDelay(base, i) == base * Pow2(i)

\* Entering the function: the loop invokes fn at once when maxRetries > 0,
\* and otherwise falls through to throw lastError, still undefined.
RetryStart(max) ==
    IF max > 0
    THEN [i |-> 0, calls |-> 1, sleeps |-> <<>>, status |-> "inflight",
          lastError |-> NoError, value |-> <<>>]
    ELSE [i |-> 0, calls |-> 0, sleeps |-> <<>>, status |-> "thrown",
          lastError |-> NoError, value |-> <<>>]

\* Variant: a wrapper that gives up after the first failure.
NeverSleepsAfterFailure(i, max) == FALSE

\* if (i < maxRetries - 1): a sleep follows this failed attempt
SleepsAfterFailure(i, max) == i < max - 1

\* The invocation of fn settles with res.
RetryOnSettle(r, res, max, base) ==
    IF res.ok
    THEN [r EXCEPT !.status = "returned", !.value = res.products]
    ELSE IF SleepsAfterFailure(r.i, max)
         THEN [r EXCEPT !.status = "sleeping", !.lastError = res.error,
                        !.sleeps = Append(@, BackoffDelay(base, r.i))]
         ELSE [r EXCEPT !.status = "thrown", !.lastError = res.error,
                        !.i = @ + 1]

\* The sleep is over: i++, and the loop invokes fn again.
RetryOnWake(r) ==
    [r EXCEPT !.i = @ + 1, !.calls = @ + 1, !.status = "inflight"]

----------------------------------------------------------------------------
(* scrapeTarget (services/scraper.service.ts): the retry call wrapped in   *)
(* try/catch.                                                              *)

\* The value slot of a promise that holds no ScraperResult.
NoResult ==
    [products |-> <<>>, source |-> Undefined, success |-> FALSE,
     error |-> Undefined]

Pending == [status |-> "pending", value |-> NoResult, reason |-> NoError]

\* Variant: error.message read without the instanceof test.
UncheckedErrorMessage(e) == e.message

\* error instanceof Error ? error.message : 'Unknown error'
ErrorMessage(e) ==
    IF e.kind = "Error" THEN e.message ELSE "Unknown error"

SuccessResult(t, products) ==
    [products |-> products, source |-> t.name, success |-> TRUE,
     error |-> Undefined]

FailureResult(t, e) ==
    [products |-> <<>>, source |-> t.name, success |-> FALSE,
     error |-> ErrorMessage(e)]

\* The promise of scrapeTarget once its retry call is in state r.
ScrapeTargetPromise(t, r) ==
    CASE r.status = "returned" ->
             [status |-> "fulfilled", value |-> SuccessResult(t, r.value),
              reason |-> NoError]
      [] r.status = "thrown" ->
             [status |-> "fulfilled", value |-> FailureResult(t, r.lastError),
              reason |-> NoError]
      [] OTHER -> Pending

----------------------------------------------------------------------------
(* scrapeMultipleTargets.                                                  *)

Idx == 1..Len(targets)

\* Variant: a fan-in that resumes as soon as one promise has settled.
AnySettled(ps) == \E k \in DOMAIN ps : ps[k].status # "pending"

\* await Promise.allSettled(promises)
AllSettled(ps) == \A k \in DOMAIN ps : ps[k].status # "pending"

\* result.reason?.message || 'Promise rejected'
RejectionMessage(reason) ==
    IF reason.kind = "Error" /\ reason.message # ""
    THEN reason.message
    ELSE "Promise rejected"

\* results.map((result, index) => ...)
CollectResult(ts, ps, k) ==
    IF ps[k].status = "fulfilled"
    THEN ps[k].value
    ELSE [products |-> <<>>, source |-> ts[k].name, success |-> FALSE,
          error |-> RejectionMessage(ps[k].reason)]

\* Variant: a fan-in that keeps the fulfilled promises only.
RECURSIVE FulfilledOnly(_, _)
FulfilledOnly(ts, ps) ==
    IF Len(ts) = 0 THEN <<>>
    ELSE LET n == Len(ts)
             front == FulfilledOnly(SubSeq(ts, 1, n - 1), ps)
         IN  IF ps[n].status = "fulfilled"
             THEN Append(front, ps[n].value)
             ELSE front

\* Variant: a fan-in that lists the outcomes in the order of completion.
CompletionOrderResults(ts, ps) ==
    [k \in 1..Len(ts) |->
        CollectResult(ts, ps, IF k \in DOMAIN settleOrder
                              THEN settleOrder[k] ELSE k)]

CollectResults(ts, ps) == [k \in 1..Len(ts) |-> CollectResult(ts, ps, k)]

\* targets.map((target) => this.scrapeTarget(target, query)): every call
\* runs synchronously up to its first await, the first fetch of its target.
StartedCalls(ts, max) == [k \in 1..Len(ts) |-> RetryStart(max)]

\* sPc is "none" when scrapeMultipleTargets is called on its own and "scrape"
\* when searchProducts calls it.
StartAll ==
    /\ mainPc = "idle"
    /\ sPc \in {"none", "scrape"}
    /\ retry' = StartedCalls(targets, maxRetries)
    /\ lastOutcome' = [k \in Idx |-> NoOutcome]
    /\ promise' = [k \in Idx |->
                      ScrapeTargetPromise(targets[k], retry'[k])]
    /\ mainPc' = "awaiting"
    /\ UNCHANGED <<normVars, maxRetries, baseDelay, targets, settleOrder,
                   scraperResults, notOrchVars>>

\* The fetch of target k that is in flight comes back.
FetchSettles(k) ==
    /\ mainPc = "awaiting"
    /\ retry[k].status = "inflight"
    /\ \E res \in FetchOutcomes(targets[k]) :
          /\ retry' = [retry EXCEPT
                          ![k] = RetryOnSettle(@, res, maxRetries, baseDelay)]
          /\ lastOutcome' = [lastOutcome EXCEPT ![k] = res]
          /\ promise' = [promise EXCEPT
                            ![k] = ScrapeTargetPromise(targets[k], retry'[k])]
          /\ settleOrder' = IF promise'[k].status # "pending"
                            THEN Append(settleOrder, k)
                            ELSE settleOrder
    /\ UNCHANGED <<normVars, maxRetries, baseDelay, targets, mainPc, scraperResults,
                   notOrchVars>>

\* The backoff sleep of target k is over.
SleepEnds(k) ==
    /\ mainPc = "awaiting"
    /\ retry[k].status = "sleeping"
    /\ retry' = [retry EXCEPT ![k] = RetryOnWake(@)]
    /\ UNCHANGED <<normVars, maxRetries, baseDelay, targets, mainPc, lastOutcome,
                   promise, settleOrder, scraperResults, notOrchVars>>

ReturnResults ==
    /\ mainPc = "awaiting"
    /\ AllSettled(promise)
    /\ scraperResults' = CollectResults(targets, promise)
    /\ mainPc' = "returned"
    /\ UNCHANGED <<normVars, maxRetries, baseDelay, targets, retry, lastOutcome,
                   promise, settleOrder, notOrchVars>>

\* An intent with no field set.  The empty string stands for every falsy
\* value of a string field (undefined, null, '') and 0 for every falsy value
\* of budget.
NoIntent ==
    [item |-> <<>>, team |-> <<>>, driver |-> <<>>, budget |-> 0,
     category |-> <<>>]

NoSummary == [kind |-> "none", count |-> 0, sources |-> <<>>]

NoSearchResult ==
    [products |-> <<>>, searchQuery |-> <<>>, intent |-> NoIntent,
     summary |-> NoSummary, sources |-> <<>>, totalFound |-> 0]

\* searchProducts is not being followed from its entry.
CoordIdle ==
    /\ cPc = "none"
    /\ userQuery = <<>>
    /\ intentReply = [kind |-> "none", intent |-> NoIntent]
    /\ intent = NoIntent
    /\ filteredProducts = <<>>
    /\ summaryReply = "none"
    /\ summary = NoSummary
    /\ cacheStore = [enabled |-> FALSE, entries |-> {}]
    /\ result = NoSearchResult

NoTraversal ==
    [kind |-> "none", pc |-> "none", attempts |-> 0, clicks |-> 0,
     found |-> <<>>, productCount |-> 0, clickRejected |-> FALSE]

\* No rendered fetch is being followed and no browser exists.
FetchIdle ==
    /\ fetch = <<>>
    /\ browser = 0
    /\ f1Browser = 0
    /\ aiBrowser = 0
    /\ openBrowsers = {}
    /\ openPages = {}
    /\ traversal = NoTraversal

\* A JSON value in the place of a products field: its type and, for an
\* array, its items.
JsonValue(type, items) == [type |-> type, items |-> items]

\* The literal []
EmptyArray == JsonValue("array", <<>>)

NoAIResult ==
    [raised |-> FALSE, success |-> FALSE, products |-> EmptyArray,
     source |-> ""]

NoRawListing == [name |-> <<>>, price |-> <<>>, availability |-> <<>>]

\* The instants at which the handlers are called, in milliseconds.
Instants == {0, 60000, 60001, 120002}

ClientIps == {"10.0.0.1", "10.0.0.2"}

\* requestCounts.get(ip) of an ip without a record
NoRateRecord == [present |-> FALSE, count |-> 0, resetAt |-> 0]

NoneYet == [ip |-> "", method |-> "", message |-> "", status |-> 0,
            code |-> "", searched |-> FALSE]

\* No request has been handled.
ApiIdle ==
    /\ requestCounts = [ip \in ClientIps |-> NoRateRecord]
    /\ limiterStore = [ip \in ClientIps |-> <<>>]
    /\ passed = [ip \in ClientIps |-> [t \in Instants |-> 0]]
    /\ response = NoneYet

\* No second request, and a cache that was never used.
ServiceIdle ==
    /\ reqPc = <<>>
    /\ timedCache = [enabled |-> FALSE, ttl |-> 0, store |-> {}]
    /\ got = <<>>

\* No extraction or normalization under way.
NormIdle ==
    /\ nPc = "none"
    /\ aiReply = [kind |-> "none", value |-> Undefined]
    /\ aiResult = NoAIResult
    /\ rawListing = NoRawListing
    /\ clock = 0
    /\ built = <<>>
    /\ elements = <<>>
    /\ returned = <<>>
    /\ registry = <<>>
    /\ listed = <<>>
    /\ found = <<>>
    /\ ApiIdle
    /\ ServiceIdle

\* The search coordinator at rest.
SearchIdle ==
    /\ NormIdle
    /\ CoordIdle
    /\ FetchIdle
    /\ enabled = [k \in 1..Len(SCRAPER_TARGETS) |-> SCRAPER_TARGETS[k].enabled]
    /\ sPc = "none"
    /\ searchQuery = <<>>
    /\ reqMaxResults = 0
    /\ maxResults = 0
    /\ allProducts = <<>>
    /\ successfulSources = <<>>
    /\ uniqueProducts = <<>>
    /\ sortedProducts = <<>>
    /\ finalProducts = <<>>
    /\ totalFound = 0

\* The orchestrator before scrapeMultipleTargets is called.
OrchIdle ==
    /\ mainPc = "idle"
    /\ retry = <<>>
    /\ lastOutcome = <<>>
    /\ promise = <<>>
    /\ settleOrder = <<>>
    /\ scraperResults = <<>>

\* A call of scrapeMultipleTargets on the first n catalog entries, with the
\* configured retry settings.
InitOrch ==
    /\ maxRetries = ConfigMaxRetries
    /\ baseDelay = ConfigRetryDelay
    /\ \E n \in 0..MaxTargets : targets = SubSeq(SCRAPER_TARGETS, 1, n)
    /\ OrchIdle
    /\ SearchIdle

Init == InitOrch

Next ==
    \/ StartAll
    \/ \E k \in Idx : FetchSettles(k)
    \/ \E k \in Idx : SleepEnds(k)
    \/ ReturnResults

Spec == Init /\ [][Next]_vars

----------------------------------------------------------------------------
(* scrapeMultipleTargets over promises that settled in any way, rejection  *)
(* included: the fan-in of lines 352-366 on its own.                       *)

SettledPromises(t) ==
    [status : {"fulfilled"},
     value : {SuccessResult(t, l) : l \in TargetListings(t)}
             \cup {FailureResult(t, e) : e \in FetchErrors},
     reason : {NoError}]
    \cup [status : {"rejected"}, value : {NoResult},
          reason : FetchErrors \cup {[kind |-> "Error", message |-> ""]}]

InitFanIn ==
    /\ maxRetries = ConfigMaxRetries
    /\ baseDelay = ConfigRetryDelay
    /\ \E n \in 0..MaxTargets : targets = SubSeq(SCRAPER_TARGETS, 1, n)
    /\ mainPc = "awaiting"
    /\ retry = [k \in Idx |-> [RetryStart(maxRetries) EXCEPT
                                  !.status = "external"]]
    /\ lastOutcome = [k \in Idx |-> NoOutcome]
    /\ \E ps \in [Idx -> UNION {SettledPromises(targets[k]) : k \in Idx}] :
          /\ \A k \in Idx : ps[k] \in SettledPromises(targets[k])
          /\ promise = ps
    /\ settleOrder = <<>>
    /\ scraperResults = <<>>
    /\ SearchIdle

SpecFanIn == (InitOrch \/ InitFanIn) /\ [][Next]_vars

----------------------------------------------------------------------------
(* retryWithBackoff on its own: one call, index 1 of retry, of an          *)
(* operation that may fail or succeed on each invocation.                  *)

OpOutcomes == FetchOutcomes(SCRAPER_TARGETS[1])

OpSettles ==
    /\ mainPc = "retryOnly"
    /\ retry[1].status = "inflight"
    /\ \E res \in OpOutcomes :
          /\ retry' = [retry EXCEPT
                          ![1] = RetryOnSettle(@, res, maxRetries, baseDelay)]
          /\ lastOutcome' = [lastOutcome EXCEPT ![1] = res]
    /\ UNCHANGED <<normVars, maxRetries, baseDelay, targets, mainPc, promise,
                   settleOrder, scraperResults, notOrchVars>>

BackoffEnds ==
    /\ mainPc = "retryOnly"
    /\ retry[1].status = "sleeping"
    /\ retry' = [retry EXCEPT ![1] = RetryOnWake(@)]
    /\ UNCHANGED <<normVars, maxRetries, baseDelay, targets, mainPc, lastOutcome,
                   promise, settleOrder, scraperResults, notOrchVars>>

InitRetry ==
    /\ maxRetries \in 0..MaxRetryArg
    /\ baseDelay \in {DefaultBaseDelay, ConfigRetryDelay}
    /\ targets = <<>>
    /\ mainPc = "retryOnly"
    /\ retry = << RetryStart(maxRetries) >>
    /\ lastOutcome = << NoOutcome >>
    /\ promise = <<>>
    /\ settleOrder = <<>>
    /\ scraperResults = <<>>
    /\ SearchIdle

NextRetry == OpSettles \/ BackoffEnds

SpecRetry == InitRetry /\ [][NextRetry]_vars

----------------------------------------------------------------------------
(* Properties of the retry wrapper and the orchestrator.                   *)

\* The ScraperResult o is what target t owes to the outcome lo of its own
\* latest fetch: the fetched products on success, a failure with an error
\* description otherwise.
OutcomeMatches(o, t, lo) ==
    /\ o.source = t.name
    /\ lo.ok => /\ o.success = TRUE
                /\ o.products = lo.products
                /\ o.error = Undefined
    /\ ~lo.ok => /\ o.success = FALSE
                 /\ o.products = <<>>
                 /\ o.error # Undefined

\* C1: partial-failure isolation.  scrapeMultipleTargets returns one outcome
\* per target; a target whose fetch succeeded is marked success with exactly
\* the products it fetched, a target whose fetch failed on every attempt is
\* marked failed with an error description; the outcome of a target depends
\* on its own fetches only, at every moment of the run.
C1_PartialFailureIsolation ==
    /\ \A k \in DOMAIN promise :
          promise[k].status = "fulfilled" =>
              OutcomeMatches(promise[k].value, targets[k], lastOutcome[k])
    /\ mainPc = "returned" =>
          /\ DOMAIN scraperResults = 1..Len(targets)
          /\ \A k \in Idx :
                OutcomeMatches(scraperResults[k], targets[k], lastOutcome[k])

\* C1 witness: a returned run in which the first target to settle succeeded
\* with products and other targets failed, one of them with a thrown value
\* that is no Error.
C1_Witness ==
    /\ mainPc = "returned"
    /\ Len(targets) = MaxTargets
    /\ scraperResults[settleOrder[1]].success
    /\ scraperResults[settleOrder[1]].products # <<>>
    /\ Cardinality({k \in Idx : ~scraperResults[k].success}) = MaxTargets - 1
    /\ \E k \in Idx : scraperResults[k].error = "Unknown error"

\* C2: scrapeMultipleTargets returns exactly as many outcomes as it was
\* given targets, zero for an empty list, whether the promises fulfilled with
\* a success, fulfilled with a failure or rejected.
C2_OneOutcomePerTarget ==
    mainPc = "returned" =>
        /\ Len(scraperResults) = Len(targets)
        /\ DOMAIN scraperResults = 1..Len(targets)

\* C2 witness: a returned run with a rejected promise, a fulfilled success
\* and a fulfilled failure among its promises.
C2_Witness ==
    /\ mainPc = "returned"
    /\ \E j, k, l \in Idx :
          /\ promise[j].status = "rejected"
          /\ promise[k].status = "fulfilled" /\ promise[k].value.success
          /\ promise[l].status = "fulfilled" /\ ~promise[l].value.success
          /\ scraperResults[j].error = "Promise rejected"

\* C3: scrapeMultipleTargets has not returned while a target's task is
\* unsettled; every task has made its first fetch before any is awaited; and
\* a task that is in flight or asleep can take its next step whatever the
\* state of the other tasks.
C3_WaitsForEveryTask ==
    /\ mainPc = "returned" =>
          \A k \in Idx : /\ promise[k].status # "pending"
                         /\ retry[k].status \in {"returned", "thrown"}
    /\ mainPc # "idle" =>
          /\ DOMAIN retry = Idx
          /\ \A k \in Idx : retry[k].calls >= 1
    /\ mainPc = "awaiting" =>
          \A k \in Idx :
              /\ retry[k].status = "inflight" => ENABLED FetchSettles(k)
              /\ retry[k].status = "sleeping" => ENABLED SleepEnds(k)

\* C3 witness: the orchestrator still waits although one target has failed
\* for good and another has succeeded, while a third sleeps between attempts.
C3_Witness ==
    /\ mainPc = "awaiting"
    /\ \E j, k, l \in Idx :
          /\ promise[j].status = "fulfilled" /\ ~promise[j].value.success
          /\ promise[k].status = "fulfilled" /\ promise[k].value.success
          /\ retry[l].status = "sleeping"

RECURSIVE SumSeq(_)
SumSeq(q) == IF q = <<>> THEN 0 ELSE q[1] + SumSeq(Tail(q))

\* C4: retryWithBackoff on an operation that fails on every call, with
\* maxRetries = n >= 1: the operation is invoked exactly n times, the sleep
\* before attempt i > 0 is baseDelay * 2^(i-1), no sleep follows the last
\* failed attempt (for n = 3 the sleeps add up to 3 * baseDelay), and the
\* call fails with the error of the last attempt.
C4_RetryBound ==
    LET r == retry[1] IN
    /\ \A j \in 1..Len(r.sleeps) : r.sleeps[j] = baseDelay * 2 ^ (j - 1)
    /\ r.status = "inflight" => Len(r.sleeps) = r.calls - 1
    /\ (r.status = "thrown" /\ maxRetries >= 1) =>
          /\ r.calls = maxRetries
          /\ Len(r.sleeps) = maxRetries - 1
          /\ maxRetries = 3 => SumSeq(r.sleeps) = baseDelay + 2 * baseDelay
          /\ ~lastOutcome[1].ok
          /\ r.lastError = lastOutcome[1].error
          /\ r.lastError # NoError

\* C4 witness: a call with maxRetries = 3 has failed for good after an
\* Error on an earlier attempt and another thrown value on the last.
C4_Witness ==
    /\ maxRetries = 3
    /\ retry[1].status = "thrown"
    /\ retry[1].sleeps = <<baseDelay, 2 * baseDelay>>
    /\ retry[1].lastError.kind = "other"

\* C5: the promise of scrapeTarget never rejects; a failure is recorded only
\* once config.scraper.maxRetries fetches of the target have been made, and
\* until then a failed fetch leaves the task asleep or fetching again; a
\* failed outcome has no products and a defined error string, a successful
\* one has no error.
C5_ScrapeTargetNeverRejects ==
    \A k \in DOMAIN promise :
        LET p == promise[k]
            r == retry[k]
        IN  /\ p.status \in {"pending", "fulfilled"}
            /\ (p.status = "fulfilled" /\ p.value.success) =>
                   p.value.error = Undefined
            /\ (p.status = "fulfilled" /\ ~p.value.success) =>
                   /\ p.value.products = <<>>
                   /\ p.value.error # Undefined
                   /\ r.calls = ConfigMaxRetries
            /\ (lastOutcome[k] # NoOutcome /\ ~lastOutcome[k].ok
                    /\ r.calls < ConfigMaxRetries) =>
                   /\ p.status = "pending"
                   /\ r.status \in {"sleeping", "inflight"}

\* C5 witness: a target recorded as failed after its third fetch.
C5_Witness ==
    \E k \in DOMAIN promise :
        /\ promise[k].status = "fulfilled"
        /\ ~promise[k].value.success
        /\ retry[k].calls = 3
        /\ Len(retry[k].sleeps) = 2

----------------------------------------------------------------------------
(* Strings as character sequences.                                         *)

UpperCase == <<"A", "B", "C", "D", "E", "F", "G", "H", "I", "J", "K", "L", "M",
               "N", "O", "P", "Q", "R", "S", "T", "U", "V", "W", "X", "Y", "Z">>
LowerCase == <<"a", "b", "c", "d", "e", "f", "g", "h", "i", "j", "k", "l", "m",
               "n", "o", "p", "q", "r", "s", "t", "u", "v", "w", "x", "y", "z">>
Digits == {"0", "1", "2", "3", "4", "5", "6", "7", "8", "9"}

\* String.prototype.toLowerCase
ToLowerChar(c) ==
    IF \E i \in 1..Len(UpperCase) : UpperCase[i] = c
    THEN LowerCase[CHOOSE i \in 1..Len(UpperCase) : UpperCase[i] = c]
    ELSE c

ToLowerCase(str) == [i \in 1..Len(str) |-> ToLowerChar(str[i])]

\* String.prototype.includes
Includes(str, word) ==
    \E i \in 0..(Len(str) - Len(word)) :
        SubSeq(str, i + 1, i + Len(word)) = word

\* String.prototype.split(' '): the pieces between single spaces, empty
\* pieces included.
RECURSIVE SplitOnSpace(_)
SplitOnSpace(str) ==
    IF \A i \in 1..Len(str) : str[i] # " "
    THEN << str >>
    ELSE LET i == CHOOSE i \in 1..Len(str) :
                      /\ str[i] = " "
                      /\ \A j \in 1..(i - 1) : str[j] # " "
         IN  << SubSeq(str, 1, i - 1) >>
                 \o SplitOnSpace(SubSeq(str, i + 1, Len(str)))

\* Array.prototype.slice(0, end)
Slice0(arr, end) ==
    LET len == Len(arr)
        final == IF end < 0
                 THEN (IF len + end > 0 THEN len + end ELSE 0)
                 ELSE (IF end < len THEN end ELSE len)
    IN  SubSeq(arr, 1, final)

\* Array.prototype.sort with the comparator (a, b) => b.key - a.key, on
\* records that carry their key: a stable sort, so an item moves behind
\* every item whose key is at least its own.
RECURSIVE InsertAfterEqual(_, _)
InsertAfterEqual(sorted, x) ==
    IF sorted = <<>> THEN << x >>
    ELSE IF Head(sorted).key >= x.key
         THEN << Head(sorted) >> \o InsertAfterEqual(Tail(sorted), x)
         ELSE << x >> \o sorted

\* Variant: an insertion that puts an item in front of its equals.
RECURSIVE InsertBeforeEqual(_, _)
InsertBeforeEqual(sorted, x) ==
    IF sorted = <<>> THEN << x >>
    ELSE IF Head(sorted).key > x.key
         THEN << Head(sorted) >> \o InsertBeforeEqual(Tail(sorted), x)
         ELSE << x >> \o sorted

\* Variant: a sort that is not stable.
RECURSIVE UnstableSortDescending(_)
UnstableSortDescending(keyed) ==
    IF keyed = <<>> THEN <<>>
    ELSE InsertBeforeEqual(
             UnstableSortDescending(SubSeq(keyed, 1, Len(keyed) - 1)),
             keyed[Len(keyed)])

RECURSIVE SortDescending(_)
SortDescending(keyed) ==
    IF keyed = <<>> THEN <<>>
    ELSE InsertAfterEqual(SortDescending(SubSeq(keyed, 1, Len(keyed) - 1)),
                          keyed[Len(keyed)])

Items(keyed) == [i \in 1..Len(keyed) |-> keyed[i].item]

----------------------------------------------------------------------------
(* The target registry (config/scraper-targets.ts).                        *)

\* The catalog with the enabled flags of the state.
Catalog ==
    [k \in 1..Len(SCRAPER_TARGETS) |->
        [SCRAPER_TARGETS[k] EXCEPT !.enabled = enabled[k]]]

IsEnabled(t) == t.enabled

\* Variant: a comparator that puts the lowest priority first.
AscendingKey(t) == 0 - t.priority

\* (a, b) => b.priority - a.priority
PriorityKey(t) == t.priority

\* .filter((target) => target.enabled).sort((a, b) => b.priority - a.priority)
\* on a catalog array
EnabledTargetsOf(catalog) ==
    LET on == SelectSeq(catalog, IsEnabled)
    IN  Items(SortDescending(
            [i \in 1..Len(on) |-> [key |-> PriorityKey(on[i]),
                                   item |-> on[i]]]))

getEnabledTargets == EnabledTargetsOf(Catalog)

\* catalog.find((target) => target.id === id): <<>> for undefined
getTargetById(catalog, id) ==
    LET at == {k \in 1..Len(catalog) : catalog[k].id = id}
    IN  IF at = {} THEN <<>>
        ELSE << catalog[CHOOSE k \in at : \A j \in at : k <= j] >>

----------------------------------------------------------------------------
(* The consolidator (services/search.service.ts).                          *)

IsLowerAlnum(c) == c \in Range(LowerCase) \cup Digits

\* Variant: a key that skips the lower-casing.
CaseSensitiveKey(name) == SelectSeq(name, IsLowerAlnum)

\* product.name.toLowerCase().replace(/[^a-z0-9]/g, '')
NormalizedKey(name) == SelectSeq(ToLowerCase(name), IsLowerAlnum)

\* Variant: a filter that lets every product through.
KeepEveryProduct(products, seen) == products

\* products.filter(...) with the Set seen
RECURSIVE RemoveDuplicatesFrom(_, _)
RemoveDuplicatesFrom(products, seen) ==
    IF products = <<>> THEN <<>>
    ELSE LET key == NormalizedKey(Head(products).name)
         IN  IF key \in seen
             THEN RemoveDuplicatesFrom(Tail(products), seen)
             ELSE << Head(products) >>
                      \o RemoveDuplicatesFrom(Tail(products),
                                              seen \cup {key})

removeDuplicates(products) == RemoveDuplicatesFrom(products, {})

\* `${product.name} ${product.description || ''} ${product.brand || ''}`
\*     .toLowerCase()
ProductText(product) ==
    ToLowerCase(product.name \o <<" ">> \o product.description
                    \o <<" ">> \o product.brand)

\* The contribution of one query word, in half units.
WordScore(product, word) ==
    IF Len(word) < 2 THEN 0
    ELSE (IF Includes(ToLowerCase(product.name), word) THEN 6 ELSE 0)
         + (IF Includes(ProductText(product), word) THEN 2 ELSE 0)

RECURSIVE WordsScore(_, _)
WordsScore(product, queryWords) ==
    IF queryWords = <<>> THEN 0
    ELSE WordScore(product, Head(queryWords))
         + WordsScore(product, Tail(queryWords))

\* Variant: a score without the bonus for items in stock.
ScoreWithoutStockBonus(product, queryWords) ==
    WordsScore(product, queryWords)

\* calculateRelevanceScore, in half units
calculateRelevanceScore(product, queryWords) ==
    WordsScore(product, queryWords)
    + (IF product.availability = "IN_STOCK" THEN 1 ELSE 0)

Keyed(products, queryWords) ==
    [i \in 1..Len(products) |->
        [key |-> calculateRelevanceScore(products[i], queryWords),
         item |-> products[i]]]

\* Variant: sortByRelevance on a sort that is not stable.
unstableSortByRelevance(products, query) ==
    Items(UnstableSortDescending(
              Keyed(products, SplitOnSpace(ToLowerCase(query)))))

sortByRelevance(products, query) ==
    Items(SortDescending(Keyed(products, SplitOnSpace(ToLowerCase(query)))))

\* scraperResults.forEach: the products and the sources of the outcomes
\* that succeeded with at least one product, in outcome order.
RECURSIVE CollectedProducts(_)
CollectedProducts(results) ==
    IF Len(results) = 0 THEN <<>>
    ELSE LET n == Len(results)
             front == CollectedProducts(SubSeq(results, 1, n - 1))
         IN  IF results[n].success /\ Len(results[n].products) > 0
             THEN front \o results[n].products
             ELSE front

\* Variant: the source of every outcome, failed ones included.
SourcesOfEveryOutcome(results) ==
    [k \in 1..Len(results) |-> results[k].source]

\* Variant: the source of every successful outcome, empty ones included.
SourcesOfSuccessfulOutcomes(results) ==
    LET ok == SelectSeq(results, LAMBDA r : r.success)
    IN  [k \in 1..Len(ok) |-> ok[k].source]

RECURSIVE CollectedSources(_)
CollectedSources(results) ==
    IF Len(results) = 0 THEN <<>>
    ELSE LET n == Len(results)
             front == CollectedSources(SubSeq(results, 1, n - 1))
         IN  IF results[n].success /\ Len(results[n].products) > 0
             THEN Append(front, results[n].source)
             ELSE front

\* maxResults || 20 in the API handler; 0 stands for every falsy value of
\* the request body, the missing field included.
DefaultMaxResults == 20
HandlerMaxResults(requested) ==
    IF requested = 0 THEN DefaultMaxResults ELSE requested

\* what the consolidation steps leave alone
notSearchVars == <<normVars, orchVars, coordVars, fetchVars>>

\* A whole retryWithBackoff call whose invocations of fn come back with the
\* outcomes of script, one after the other.
RECURSIVE RunRetry(_, _, _, _)
RunRetry(r, script, max, base) ==
    IF script = <<>> \/ r.status \in {"returned", "thrown"} THEN r
    ELSE LET settled == RetryOnSettle(r, Head(script), max, base)
             next == IF settled.status = "sleeping"
                     THEN RetryOnWake(settled) ELSE settled
         IN  RunRetry(next, Tail(script), max, base)

\* The outcome sequences that carry a call to its end: failures, closed by a
\* success or by the failure of the last attempt allowed.
CompleteScripts(t, max) ==
    {script \in UNION {[1..n -> FetchOutcomes(t)] : n \in 1..max} :
        /\ \A i \in 1..(Len(script) - 1) : ~script[i].ok
        /\ script[Len(script)].ok \/ Len(script) = max}

\* Within a search the scrapeTarget call of target k is taken as one step,
\* from its first fetch to the settling of its promise; of the locals of
\* the finished retry call only the status is kept.
ScrapeTargetCompletes(k) ==
    /\ sPc = "scrape"
    /\ mainPc = "awaiting"
    /\ promise[k].status = "pending"
    /\ \E script \in CompleteScripts(targets[k], maxRetries) :
          LET finished == RunRetry(retry[k], script, maxRetries, baseDelay)
          IN  /\ retry' = [retry EXCEPT ![k].status = finished.status]
              /\ lastOutcome' = [lastOutcome EXCEPT
                                    ![k] = script[Len(script)]]
              /\ promise' = [promise EXCEPT
                                ![k] = ScrapeTargetPromise(targets[k],
                                                           finished)]
              /\ settleOrder' = Append(settleOrder, k)
    /\ UNCHANGED <<normVars, maxRetries, baseDelay, targets, mainPc, scraperResults,
                   notOrchVars>>

\* const targets = getEnabledTargets(), handed to scrapeMultipleTargets
GetTargets ==
    /\ sPc = "targets"
    /\ targets' = getEnabledTargets
    /\ sPc' = "scrape"
    /\ UNCHANGED <<normVars, maxRetries, baseDelay, mainPc, retry, lastOutcome,
                   promise, settleOrder, scraperResults>>
    /\ UNCHANGED <<enabled, searchQuery, reqMaxResults, maxResults,
                   allProducts, successfulSources, uniqueProducts,
                   sortedProducts, finalProducts, totalFound>>
    /\ UNCHANGED <<coordVars, fetchVars>>

\* Step 5: collect all products
CollectProducts ==
    /\ sPc = "scrape"
    /\ mainPc = "returned"
    /\ allProducts' = CollectedProducts(scraperResults)
    /\ successfulSources' = CollectedSources(scraperResults)
    /\ sPc' = "dedup"
    /\ UNCHANGED <<enabled, searchQuery, reqMaxResults, maxResults,
                   uniqueProducts, sortedProducts, finalProducts, totalFound,
                   notSearchVars>>

\* Steps 6 and 7: filtering is skipped, duplicates are removed
RemoveDuplicatesStep ==
    /\ sPc = "dedup"
    /\ uniqueProducts' = removeDuplicates(allProducts)
    /\ sPc' = "sort"
    /\ UNCHANGED <<enabled, searchQuery, reqMaxResults, maxResults,
                   allProducts, successfulSources, sortedProducts,
                   finalProducts, totalFound, notSearchVars>>

\* Step 8: sort by relevance; Array.prototype.sort sorts uniqueProducts in
\* place and returns it.
SortStep ==
    /\ sPc = "sort"
    /\ sortedProducts' = sortByRelevance(uniqueProducts, searchQuery)
    /\ uniqueProducts' = sortedProducts'
    /\ sPc' = "slice"
    /\ UNCHANGED <<enabled, searchQuery, reqMaxResults, maxResults,
                   allProducts, successfulSources, finalProducts, totalFound,
                   notSearchVars>>

\* Step 9 and the products and totalFound fields of the result
SliceStep ==
    /\ sPc = "slice"
    /\ finalProducts' = Slice0(sortedProducts, maxResults)
    /\ totalFound' = Len(sortedProducts)
    /\ sPc' = "done"
    /\ UNCHANGED <<enabled, searchQuery, reqMaxResults, maxResults,
                   allProducts, successfulSources, uniqueProducts,
                   sortedProducts, notSearchVars>>

\* Search strings: "cap", "Hat cap", "cap 1".
QueryCap    == <<"c", "a", "p">>
QueryHatCap == <<"H", "a", "t", " ", "c", "a", "p">>
QueryCapOne == <<"c", "a", "p", " ", "1">>
Queries == {QueryCap, QueryHatCap, QueryCapOne}

\* maxResults values of a request body
RequestedMaxResults == {-2, -1, 0, 1, 2, 3}

\* The products the pipeline is tried on.
ProductPool ==
    { Prod(NameCap, <<>>, "IN_STOCK", 20, "F1 Authentics"),
      Prod(NameCap, <<>>, "IN_STOCK", 25, "eBay"),
      Prod(NameCapBang, NameHat, "OUT_OF_STOCK", 18, "eBay"),
      Prod(NameHat, <<>>, "IN_STOCK", 80, "Red Bull Shop"),
      Prod(NameCapOne, <<>>, "LIMITED_STOCK", 0, "F1 Official Store") }

ProductLists == UNION {[1..n -> ProductPool] : n \in 0..MaxProducts}

\* The pipeline on its own: any collected product list, search string and
\* requested result cap.
InitConsol ==
    /\ NormIdle
    /\ maxRetries = ConfigMaxRetries
    /\ baseDelay = ConfigRetryDelay
    /\ targets = <<>>
    /\ OrchIdle
    /\ CoordIdle
    /\ FetchIdle
    /\ enabled = [k \in 1..Len(SCRAPER_TARGETS) |-> SCRAPER_TARGETS[k].enabled]
    /\ sPc = "dedup"
    /\ searchQuery \in Queries
    /\ reqMaxResults \in RequestedMaxResults
    /\ maxResults = HandlerMaxResults(reqMaxResults)
    /\ allProducts \in ProductLists
    /\ successfulSources = <<>>
    /\ uniqueProducts = <<>>
    /\ sortedProducts = <<>>
    /\ finalProducts = <<>>
    /\ totalFound = 0

NextConsol == RemoveDuplicatesStep \/ SortStep \/ SliceStep

SpecConsol == InitConsol /\ [][NextConsol]_vars

\* A search from the point where the search string is known: any choice of
\* at most MaxEnabled enabled catalog entries.
InitSearch ==
    /\ NormIdle
    /\ maxRetries = ConfigMaxRetries
    /\ baseDelay = ConfigRetryDelay
    /\ targets = <<>>
    /\ OrchIdle
    /\ CoordIdle
    /\ FetchIdle
    /\ enabled \in [1..Len(SCRAPER_TARGETS) -> BOOLEAN]
    /\ Cardinality({k \in DOMAIN enabled : enabled[k]}) <= MaxEnabled
    /\ sPc = "targets"
    /\ searchQuery = QueryCap
    /\ reqMaxResults \in {0, 1}
    /\ maxResults = HandlerMaxResults(reqMaxResults)
    /\ allProducts = <<>>
    /\ successfulSources = <<>>
    /\ uniqueProducts = <<>>
    /\ sortedProducts = <<>>
    /\ finalProducts = <<>>
    /\ totalFound = 0

NextSearch ==
    \/ GetTargets
    \/ StartAll
    \/ \E k \in Idx : ScrapeTargetCompletes(k)
    \/ ReturnResults
    \/ CollectProducts
    \/ RemoveDuplicatesStep
    \/ SortStep
    \/ SliceStep

SpecSearch == InitSearch /\ [][NextSearch]_vars

----------------------------------------------------------------------------
(* Properties of the consolidator.                                         *)

\* The key of the claims: the lower-cased name without the characters
\* outside a-z and 0-9.
KeptPositions(name) ==
    {i \in 1..Len(name) : ToLowerChar(name[i]) \in Range(LowerCase) \cup Digits}

NthOf(S, n) == CHOOSE i \in S : Cardinality({j \in S : j <= i}) = n

NameKey(name) ==
    [n \in 1..Cardinality(KeptPositions(name)) |->
        ToLowerChar(name[NthOf(KeptPositions(name), n)])]

\* the positions of list at which a key occurs for the first time
FirstPositions(list) ==
    {i \in 1..Len(list) :
        \A j \in 1..(i - 1) : NameKey(list[j].name) # NameKey(list[i].name)}

\* the entries of list at the positions S, in list order
Restricted(list, S) == [n \in 1..Cardinality(S) |-> list[NthOf(S, n)]]

\* C6: removeDuplicates returns at most one product per key, its output is
\* a subsequence of its input in the same relative order, and the product
\* kept for a key is the first one of the input with that key: the output is
\* the input restricted to the first position of every key.
C6_Deduplication ==
    sPc = "sort" =>
        /\ \A i, j \in 1..Len(uniqueProducts) :
              i # j => NameKey(uniqueProducts[i].name)
                           # NameKey(uniqueProducts[j].name)
        /\ uniqueProducts = Restricted(allProducts, FirstPositions(allProducts))

\* C6 witness: an input with the same key at its first and last position,
\* under different names, and another key in between.
C6_Witness ==
    /\ sPc = "sort"
    /\ Len(allProducts) = 3
    /\ Len(uniqueProducts) = 2
    /\ allProducts[1].name # allProducts[3].name
    /\ NameKey(allProducts[1].name) = NameKey(allProducts[3].name)
    /\ uniqueProducts = << allProducts[1], allProducts[2] >>

\* the entry of the current target list with display name n
TargetsNamed(n) == {k \in Idx : targets[k].name = n}

\* C7: in a search, when targets of different priority both returned a
\* product with the same key, the product with that key left by the
\* deduplication comes from the target of the highest priority among them,
\* in whatever order the fetches completed.
C7_PrioritySurvives ==
    sPc \in {"sort", "slice", "done"} =>
        \A i \in 1..Len(uniqueProducts) :
            \A k \in Idx :
                (/\ scraperResults[k].success
                 /\ \E j \in 1..Len(scraperResults[k].products) :
                       NameKey(scraperResults[k].products[j].name)
                           = NameKey(uniqueProducts[i].name))
                => \E w \in TargetsNamed(uniqueProducts[i].source) :
                       targets[w].priority >= targets[k].priority

\* C7 witness: two targets of different priority returned a product with the
\* same key, the one of lower priority settled first, and the product kept
\* is the one of the target of higher priority.
C7_Witness ==
    /\ sPc = "sort"
    /\ Len(targets) = 2
    /\ targets[1].priority > targets[2].priority
    /\ settleOrder = << 2, 1 >>
    /\ \E i \in 1..Len(uniqueProducts) :
          /\ uniqueProducts[i].source = targets[1].name
          /\ \E j \in 1..Len(scraperResults[2].products) :
                NameKey(scraperResults[2].products[j].name)
                    = NameKey(uniqueProducts[i].name)

\* The score of the claims, in half units: 6 for each query token of at
\* least 2 characters found in the lower-cased name, 2 for each found in the
\* lower-cased name+description+brand text, 1 for IN_STOCK.
QueryTokens == SplitOnSpace(ToLowerCase(searchQuery))

LongTokenPositions == {n \in 1..Len(QueryTokens) : Len(QueryTokens[n]) >= 2}

Score2(product) ==
    6 * Cardinality({n \in LongTokenPositions :
                        Includes(ToLowerCase(product.name), QueryTokens[n])})
    + 2 * Cardinality({n \in LongTokenPositions :
                        Includes(ToLowerCase(product.name \o <<" ">>
                                     \o product.description \o <<" ">>
                                     \o product.brand), QueryTokens[n])})
    + (IF product.availability = "IN_STOCK" THEN 1 ELSE 0)

\* the list before the sort: removeDuplicates of the collected products
BeforeSort == removeDuplicates(allProducts)

IsPermutation(a, b) ==
    /\ Len(a) = Len(b)
    /\ \A x \in Range(a) \cup Range(b) :
          Cardinality({i \in 1..Len(a) : a[i] = x})
              = Cardinality({i \in 1..Len(b) : b[i] = x})

\* C8: sortByRelevance returns its input reordered by non-increasing score.
C8_SortedByScore ==
    sPc = "slice" =>
        /\ IsPermutation(sortedProducts, BeforeSort)
        /\ \A i \in 1..(Len(sortedProducts) - 1) :
              Score2(sortedProducts[i]) >= Score2(sortedProducts[i + 1])

\* C8 witness: a sort that moved an item in stock in front of an item not
\* in stock that matches the same token, under a search string with a token
\* of one character that only the latter contains.
C8_Witness ==
    /\ sPc = "slice"
    /\ searchQuery = QueryCapOne
    /\ Len(sortedProducts) = 2
    /\ sortedProducts[1] = allProducts[2]
    /\ sortedProducts[2] = allProducts[1]
    /\ sortedProducts[2].name = NameCapOne
    /\ Score2(sortedProducts[1]) = 9
    /\ Score2(sortedProducts[2]) = 8

\* the position of product x in the list a, which holds it once
PositionIn(a, x) == CHOOSE i \in 1..Len(a) : a[i] = x

\* C9: two products of equal score keep, after sortByRelevance, the relative
\* order they had in its input.
C9_RankingStability ==
    sPc = "slice" =>
        \A i, j \in 1..Len(sortedProducts) :
            (/\ i < j
             /\ calculateRelevanceScore(sortedProducts[i], QueryTokens)
                    = calculateRelevanceScore(sortedProducts[j], QueryTokens))
            => PositionIn(BeforeSort, sortedProducts[i])
                   < PositionIn(BeforeSort, sortedProducts[j])

\* C9 witness: two products of equal score moved, in their input order, in
\* front of a product of lower score that stood first in the input.
C9_Witness ==
    /\ sPc = "slice"
    /\ Len(allProducts) = 3
    /\ sortedProducts = << allProducts[2], allProducts[3], allProducts[1] >>
    /\ Score2(sortedProducts[1]) = Score2(sortedProducts[2])
    /\ Score2(sortedProducts[2]) > Score2(sortedProducts[3])

MinOf(a, b) == IF a < b THEN a ELSE b

\* C10: for every maxResults the handler passes on, the products returned
\* are the first min(maxResults, n) of the n ranked candidates, never more
\* than maxResults, and totalFound is n.
C10_Truncation ==
    sPc = "done" =>
        LET n == Len(sortedProducts) IN
        /\ finalProducts = SubSeq(sortedProducts, 1, MinOf(maxResults, n))
        /\ Len(finalProducts) <= maxResults
        /\ totalFound = n

----------------------------------------------------------------------------
(* searchProducts from its entry (services/search.service.ts) with the     *)
(* two completions it asks of openAIService (services/openai.service.ts)   *)
(* and the cache (utils/cache.ts).                                         *)

\* most catalog entries enabled at once when the whole request is followed
MaxCoordEnabled == 1

StrFormula1 == <<"F", "o", "r", "m", "u", "l", "a", " ", "1">>
StrF1       == <<"F", "1">>
StrGeneral  == <<"g", "e", "n", "e", "r", "a", "l">>
StrHat      == <<"H", "a", "t">>

\* terms.join(' ')
RECURSIVE JoinWithSpace(_)
JoinWithSpace(terms) ==
    IF terms = <<>> THEN <<>>
    ELSE IF Len(terms) = 1 THEN terms[1]
    ELSE terms[1] \o <<" ">> \o JoinWithSpace(Tail(terms))

\* a term is pushed when it is truthy
TermOf(str) == IF str = <<>> THEN <<>> ELSE << str >>

\* openAIService.buildSearchQuery
buildSearchQuery(i) ==
    JoinWithSpace(<<StrFormula1, StrF1>> \o TermOf(i.team)
                      \o TermOf(i.driver) \o TermOf(i.item)
                      \o TermOf(i.category))

\* What the chat completion behind extractIntent can come back with: the
\* call throws, the message has no content, the content is no JSON, the
\* content is the JSON null, or the content is a JSON object.
IntentObjects ==
    { NoIntent,
      [NoIntent EXCEPT !.item = QueryCap],
      [NoIntent EXCEPT !.item = QueryCap, !.team = StrHat, !.budget = 50],
      [NoIntent EXCEPT !.team = StrHat] }

IntentReplies ==
    { [kind |-> k, intent |-> NoIntent] :
          k \in {"error", "empty", "unparseable", "null"} }
    \cup { [kind |-> "json", intent |-> i] : i \in IntentObjects }

\* extractIntent: {} unless the content parsed, then the parsed value
extractIntent(reply) ==
    IF reply.kind = "json" THEN reply.intent ELSE NoIntent

\* The try block of step 1 throws: buildSearchQuery reads a field of null,
\* or the check of line 148 finds no item.
IntentRejected(reply) ==
    \/ reply.kind = "null"
    \/ extractIntent(reply).item = <<>>

\* Variant: a fallback that lower-cases the search string as well.
LoweredFallbackQuery(q) == ToLowerCase(q)

\* searchQuery = userQuery
FallbackSearchQuery(q) == q

\* the intent of the catch block of step 1
FallbackIntent(q) ==
    [NoIntent EXCEPT !.item = ToLowerCase(q), !.category = StrGeneral]

DigitChars == <<"0", "1", "2", "3", "4", "5", "6", "7", "8", "9">>

\* The decimal digits of a natural number.
RECURSIVE DecimalString(_)
DecimalString(n) ==
    IF n < 10 THEN << DigitChars[n + 1] >>
    ELSE Append(DecimalString(n \div 10), DigitChars[(n % 10) + 1])

\* `${n}` of an integer
NumberToString(n) ==
    IF n < 0 THEN << "-" >> \o DecimalString(-n) ELSE DecimalString(n)

\* Variant: a key made of the query text alone.
KeyOfQueryAlone(q, max) == <<"s", "e", "a", "r", "c", "h", ":">> \o ToLowerCase(q)

\* `search:${userQuery.toLowerCase()}:${maxResults}`
CacheKey(q, max) ==
    <<"s", "e", "a", "r", "c", "h", ":">> \o ToLowerCase(q) \o << ":" >> \o NumberToString(max)

CachedUnder(key) == {e \in cacheStore.entries : e.key = key}

\* cache.set: the entry of the key is replaced; nothing when disabled.
\* storedFor remembers the call that stored the entry; no step reads it.
CacheSet(store, key, data, call) ==
    IF store.enabled
    THEN [store EXCEPT !.entries = {e \in @ : e.key # key}
                                       \cup {[key |-> key, data |-> data,
                                              storedFor |-> call]}]
    ELSE store

\* What the chat completion behind generateResponse can come back with.
SummaryReplies == {"text", "empty", "error"}

\* generateResponse: the text of the completion, which was told the product
\* count and the sources; or the sentence of line 128, with the sources
\* when there are any; or the sentence of line 134.
generateResponse(reply, products, sources) ==
    CASE reply = "text" ->
             [kind |-> "completion", count |-> Len(products),
              sources |-> sources]
      [] reply = "empty" ->
             [kind |-> "template", count |-> Len(products),
              sources |-> sources]
      [] OTHER ->
             [kind |-> "template", count |-> Len(products),
              sources |-> <<>>]

\* closeBrowser of ScraperService: closes the browser its field refers to
\* closeBrowser of one service: the process its field refers to is closed,
\* and no other.
ClosedBrowsers(open, service, field) ==
    {b \in open : ~(b.service = service /\ b.id = field)}

\* Lines 132-137: the cache is asked first.  An entry past its expiry is
\* deleted and counts as a miss.
CacheLookup ==
    /\ cPc = "cache"
    /\ LET key == CacheKey(userQuery, maxResults) IN
       \/ /\ cacheStore.enabled
          /\ \E e \in CachedUnder(key) :
                /\ result' = e.data
                /\ cPc' = "finally"
                /\ UNCHANGED cacheStore
       \/ /\ cacheStore.enabled
          /\ CachedUnder(key) # {}
          /\ cacheStore' = [cacheStore EXCEPT
                               !.entries = @ \ CachedUnder(key)]
          /\ cPc' = "intent"
          /\ UNCHANGED result
       \/ /\ ~cacheStore.enabled \/ CachedUnder(key) = {}
          /\ cPc' = "intent"
          /\ UNCHANGED <<cacheStore, result>>
    /\ UNCHANGED <<userQuery, intentReply, intent, filteredProducts,
                   summaryReply, summary>>
    /\ UNCHANGED <<normVars, orchVars, searchVars, fetchVars>>

\* Step 1, lines 143-166: the intent and the search string.
IntentStep ==
    /\ cPc = "intent"
    /\ \E reply \in IntentReplies :
          /\ intentReply' = reply
          /\ IF IntentRejected(reply)
             THEN /\ intent' = FallbackIntent(userQuery)
                  /\ searchQuery' = FallbackSearchQuery(userQuery)
             ELSE /\ intent' = extractIntent(reply)
                  /\ searchQuery' = buildSearchQuery(extractIntent(reply))
    /\ cPc' = "pipeline"
    /\ sPc' = "targets"
    /\ UNCHANGED <<userQuery, filteredProducts, summaryReply, summary,
                   cacheStore, result>>
    /\ UNCHANGED <<enabled, reqMaxResults, maxResults, allProducts,
                   successfulSources, uniqueProducts, sortedProducts,
                   finalProducts, totalFound>>
    /\ UNCHANGED <<normVars, orchVars, fetchVars>>

\* The SearchResult of lines 216-224.
SearchResultOf(sum) ==
    [products |-> finalProducts, searchQuery |-> searchQuery,
     intent |-> intent, summary |-> sum, sources |-> successfulSources,
     totalFound |-> totalFound]

\* Step 10 to the return of line 246: the summary, the result, cache.set.
SummaryStep ==
    /\ cPc = "pipeline"
    /\ sPc = "done"
    /\ \E reply \in SummaryReplies :
          /\ summaryReply' = reply
          /\ summary' = generateResponse(reply, finalProducts,
                                         successfulSources)
    /\ result' = SearchResultOf(summary')
    /\ cacheStore' = CacheSet(cacheStore,
                              CacheKey(userQuery, maxResults), result',
                              [userQuery |-> userQuery,
                               maxResults |-> maxResults])
    /\ cPc' = "finally"
    /\ UNCHANGED <<userQuery, intentReply, intent, filteredProducts>>
    /\ UNCHANGED <<normVars, orchVars, searchVars, fetchVars>>

\* The finally block: await scraperService.closeBrowser()
Finally ==
    /\ cPc = "finally"
    /\ openBrowsers' = ClosedBrowsers(openBrowsers, "puppeteer", browser)
    /\ browser' = 0
    /\ cPc' = "completed"
    /\ UNCHANGED <<userQuery, intentReply, intent, filteredProducts,
                   summaryReply, summary, cacheStore, result>>
    /\ UNCHANGED <<fetch, f1Browser, aiBrowser, openPages, traversal>>
    /\ UNCHANGED <<normVars, orchVars, searchVars>>

UserQueries == {QueryCap, QueryHatCap}

\* The handler calls searchProducts again with the same message and
\* maxResults; the cache and the registry stay.
NewRequest ==
    /\ cPc = "completed"
    /\ cPc' = "cache"
    /\ sPc' = "entry"
    /\ mainPc' = "idle"
    /\ targets' = <<>>
    /\ retry' = <<>>
    /\ lastOutcome' = <<>>
    /\ promise' = <<>>
    /\ settleOrder' = <<>>
    /\ scraperResults' = <<>>
    /\ searchQuery' = <<>>
    /\ allProducts' = <<>>
    /\ successfulSources' = <<>>
    /\ uniqueProducts' = <<>>
    /\ sortedProducts' = <<>>
    /\ finalProducts' = <<>>
    /\ totalFound' = 0
    /\ intentReply' = [kind |-> "none", intent |-> NoIntent]
    /\ intent' = NoIntent
    /\ summaryReply' = "none"
    /\ summary' = NoSummary
    /\ result' = NoSearchResult
    /\ UNCHANGED <<normVars, maxRetries, baseDelay, enabled, reqMaxResults, maxResults,
                   userQuery, filteredProducts, cacheStore, fetchVars>>

\* The first call of searchProducts of a process, the cache on or off.
InitCoord ==
    /\ NormIdle
    /\ maxRetries = ConfigMaxRetries
    /\ baseDelay = ConfigRetryDelay
    /\ targets = <<>>
    /\ OrchIdle
    /\ FetchIdle
    /\ enabled \in [1..Len(SCRAPER_TARGETS) -> BOOLEAN]
    /\ Cardinality({k \in DOMAIN enabled : enabled[k]}) <= MaxCoordEnabled
    /\ sPc = "entry"
    /\ searchQuery = <<>>
    /\ reqMaxResults \in {0, 1}
    /\ maxResults = HandlerMaxResults(reqMaxResults)
    /\ allProducts = <<>>
    /\ successfulSources = <<>>
    /\ uniqueProducts = <<>>
    /\ sortedProducts = <<>>
    /\ finalProducts = <<>>
    /\ totalFound = 0
    /\ cPc = "cache"
    /\ userQuery \in UserQueries
    /\ intentReply = [kind |-> "none", intent |-> NoIntent]
    /\ intent = NoIntent
    /\ filteredProducts = <<>>
    /\ summaryReply = "none"
    /\ summary = NoSummary
    /\ cacheStore \in [enabled : BOOLEAN, entries : {{}}]
    /\ result = NoSearchResult

NextCoord ==
    \/ CacheLookup
    \/ IntentStep
    \/ GetTargets
    \/ StartAll
    \/ \E k \in Idx : ScrapeTargetCompletes(k)
    \/ ReturnResults
    \/ CollectProducts
    \/ RemoveDuplicatesStep
    \/ SortStep
    \/ SliceStep
    \/ SummaryStep
    \/ Finally
    \/ NewRequest

SpecCoord == InitCoord /\ [][NextCoord]_vars

----------------------------------------------------------------------------
(* Properties of searchProducts as a whole.                                *)

\* searchProducts has produced its result by running the pipeline, not by
\* a cache hit.
ReturnedFresh == cPc \in {"finally", "completed"} /\ summaryReply # "none"

\* C11: with intent filtering bypassed, a search that is not served from
\* the cache returns the collected products deduplicated, then ranked, then
\* truncated: no two returned products share a normalized-name key and none
\* is out of score order.
C11_ConsolidationOrder ==
    ReturnedFresh =>
        /\ result.products
               = Slice0(sortByRelevance(
                            removeDuplicates(
                                CollectedProducts(scraperResults)),
                            searchQuery),
                        maxResults)
        /\ \A i, j \in 1..Len(result.products) :
              i < j =>
                 /\ NameKey(result.products[i].name)
                        # NameKey(result.products[j].name)
                 /\ Score2(result.products[i]) >= Score2(result.products[j])

\* C11 witness: a fresh search collected a product of low score ahead of one
\* of high score and returned the latter alone, the cap on results being 1.
C11_Witness ==
    /\ ReturnedFresh
    /\ Len(allProducts) = 2
    /\ Score2(allProducts[1]) < Score2(allProducts[2])
    /\ maxResults = 1
    /\ result.products = << allProducts[2] >>
    /\ result.totalFound = 2

\* C13: when no target succeeds, or none is enabled, searchProducts returns
\* a result with no products, no sources, totalFound 0 and a summary made
\* for zero products and zero sources; the summary step can always be taken.
C13_TotalFailure ==
    /\ (ReturnedFresh /\ \A k \in Idx : ~scraperResults[k].success) =>
          /\ result.products = <<>>
          /\ result.sources = <<>>
          /\ result.totalFound = 0
          /\ result.summary.kind \in {"completion", "template"}
          /\ result.summary.count = 0
          /\ result.summary.sources = <<>>
    /\ (cPc = "pipeline" /\ sPc = "done") => ENABLED SummaryStep

\* C13 witness: a search whose only enabled target failed has completed.
C13_Witness ==
    /\ cPc = "completed"
    /\ summaryReply = "text"
    /\ Len(targets) = 1
    /\ ~scraperResults[1].success
    /\ result.summary.count = 0

\* The extractor failed or gave an intent without an item.
ExtractionFailed ==
    \/ intentReply.kind \in {"error", "empty", "unparseable", "null"}
    \/ intentReply.kind = "json" /\ intentReply.intent.item = <<>>

\* C14: when intent extraction fails or gives an empty intent, the search
\* string is the raw user query, the intent is {item: lower-cased query,
\* category: 'general'} with no team, driver or budget, and the search goes
\* on to its result; the searchQuery field of a result is the string that
\* was sent to the targets; at every position short of completion the step
\* of that position can be taken.
C14_IntentFallback ==
    /\ (ExtractionFailed /\ cPc \in {"pipeline", "finally", "completed"}) =>
          /\ searchQuery = userQuery
          /\ intent.item = ToLowerCase(userQuery)
          /\ intent.category = StrGeneral
          /\ intent.team = <<>> /\ intent.driver = <<>> /\ intent.budget = 0
    /\ ReturnedFresh =>
          /\ result.searchQuery = searchQuery
          /\ result.intent = intent
          /\ result.summary.kind \in {"completion", "template"}
          /\ mainPc = "returned"
          /\ sPc = "done"
    /\ cPc = "cache" => ENABLED CacheLookup
    /\ cPc = "intent" => ENABLED IntentStep
    /\ cPc = "finally" => ENABLED Finally
    /\ cPc = "pipeline" =>
          /\ sPc \in {"targets", "scrape", "dedup", "sort", "slice", "done"}
          /\ (sPc = "scrape" /\ mainPc = "idle") => ENABLED StartAll
          /\ (sPc = "scrape" /\ mainPc = "awaiting") =>
                 \/ \E k \in Idx : promise[k].status = "pending"
                 \/ ENABLED ReturnResults
          /\ (sPc = "scrape" /\ mainPc = "returned") =>
                 ENABLED CollectProducts
          /\ sPc = "done" => ENABLED SummaryStep

\* C14 witness: the extractor threw on a query with a capital letter, and
\* the search completed with products found under the raw query.
C14_Witness ==
    /\ cPc = "completed"
    /\ intentReply.kind = "error"
    /\ userQuery = QueryHatCap
    /\ result.searchQuery = QueryHatCap
    /\ result.intent.item # QueryHatCap
    /\ Len(result.products) = 2

\* C15: when the summary collaborator fails or returns no text, the result
\* keeps its products and its summary is the templated sentence stating the
\* product count and the source list.
C15_SummaryFallback ==
    (ReturnedFresh /\ summaryReply \in {"empty", "error"}) =>
        /\ result.products = finalProducts
        /\ result.summary.kind = "template"
        /\ result.summary.count = Len(result.products)
        /\ result.summary.sources = result.sources

----------------------------------------------------------------------------
(* filterProductsByIntent (services/search.service.ts, lines 17-51) and    *)
(* the pipeline with it in the place of line 190.                          *)

StrRacewear == <<"r", "a", "c", "e", "w", "e", "a", "r">>
StrRace     == <<"r", "a", "c", "e">>
StrSuit     == <<"s", "u", "i", "t">>
StrTeamwear == <<"t", "e", "a", "m", "w", "e", "a", "r">>
StrClothing == <<"c", "l", "o", "t", "h", "i", "n", "g">>
StrShirt    == <<"s", "h", "i", "r", "t">>
StrJacket   == <<"j", "a", "c", "k", "e", "t">>
StrPolo     == <<"p", "o", "l", "o">>

\* String.prototype.split(/\s+/): the pieces between runs of spaces; an
\* empty piece can only come first or last.
SplitOnSpaces(str) ==
    LET parts == SplitOnSpace(str)
        kept == {i \in 1..Len(parts) :
                    parts[i] # <<>> \/ i = 1 \/ i = Len(parts)}
    IN  [n \in 1..Cardinality(kept) |->
            parts[CHOOSE i \in kept :
                      Cardinality({j \in kept : j <= i}) = n]]

\* the callback of itemWords.some
ItemWordMatches(text, word) ==
    \/ Includes(text, word)
    \/ /\ word = StrRacewear
       /\ \/ Includes(text, StrRace)
          \/ Includes(text, StrSuit)
          \/ Includes(text, StrTeamwear)
    \/ /\ word = StrClothing
       /\ \/ Includes(text, StrShirt)
          \/ Includes(text, StrJacket)
          \/ Includes(text, StrPolo)

\* Variant: a filter that never looks at the price.
NoBudgetFilter(product, i) == FALSE

\* if (intent.budget && product.price.amount > intent.budget) return false
BudgetExcludes(product, i) == i.budget # 0 /\ product.amount > i.budget

\* the callback of products.filter
PassesIntent(product, i) ==
    LET text == ProductText(product)
        itemWords == SplitOnSpaces(ToLowerCase(i.item))
    IN  /\ ~(i.team # <<>> /\ ~Includes(text, ToLowerCase(i.team)))
        /\ ~(i.driver # <<>> /\ ~Includes(text, ToLowerCase(i.driver)))
        /\ ~(i.item # <<>>
               /\ ~\E n \in 1..Len(itemWords) :
                      ItemWordMatches(text, itemWords[n]))
        /\ ~BudgetExcludes(product, i)

RECURSIVE filterProductsByIntent(_, _)
filterProductsByIntent(products, i) ==
    IF products = <<>> THEN <<>>
    ELSE (IF PassesIntent(Head(products), i)
          THEN << Head(products) >> ELSE <<>>)
         \o filterProductsByIntent(Tail(products), i)

\* Step 6 with the filter applied
FilterStep ==
    /\ sPc = "filter"
    /\ filteredProducts' = filterProductsByIntent(allProducts, intent)
    /\ sPc' = "dedupFiltered"
    /\ UNCHANGED <<cPc, userQuery, intentReply, intent, summaryReply,
                   summary, cacheStore, result>>
    /\ UNCHANGED <<enabled, searchQuery, reqMaxResults, maxResults,
                   allProducts, successfulSources, uniqueProducts,
                   sortedProducts, finalProducts, totalFound>>
    /\ UNCHANGED <<normVars, orchVars, fetchVars>>

\* Step 7 on the filtered products
DedupFilteredStep ==
    /\ sPc = "dedupFiltered"
    /\ uniqueProducts' = removeDuplicates(filteredProducts)
    /\ sPc' = "sort"
    /\ UNCHANGED <<enabled, searchQuery, reqMaxResults, maxResults,
                   allProducts, successfulSources, sortedProducts,
                   finalProducts, totalFound, notSearchVars>>

StrRedBull     == <<"R", "e", "d", " ", "B", "u", "l", "l">>
NameRedBullCap == <<"R", "e", "d", " ", "B", "u", "l", "l", " ", "C", "a", "p">>
NameRedBullJacket == <<"R", "e", "d", " ", "B", "u", "l", "l", " ", "J", "a", "c", "k", "e", "t">>
NameRedBullCapBangs == <<"r", "e", "d", " ", "b", "u", "l", "l", " ", "c", "a", "p", "!", "!">>
QueryRedBullCap == <<"r", "e", "d", " ", "b", "u", "l", "l", " ", "c", "a", "p">>

\* The products of the two targets of the scenario.
CapOfA    == Prod(NameRedBullCap, <<>>, "IN_STOCK", 20, "A")
JacketOfA == Prod(NameRedBullJacket, <<>>, "IN_STOCK", 80, "A")
CapOfB    == Prod(NameRedBullCapBangs, <<>>, "IN_STOCK", 18, "B")

ScenarioPool == {CapOfA, JacketOfA, CapOfB}

\* Intents an extractor could make of "red bull cap" with or without a
\* budget, and the fallback intent of the query.
ScenarioIntents ==
    { [NoIntent EXCEPT !.item = it, !.team = tm, !.budget = b] :
          it \in {QueryCap, QueryRedBullCap}, tm \in {<<>>, StrRedBull},
          b \in {0, 18, 50} }
    \cup { FallbackIntent(QueryRedBullCap) }

\* The pipeline from the collected products on, the filter applied.
InitFilter ==
    /\ NormIdle
    /\ maxRetries = ConfigMaxRetries
    /\ baseDelay = ConfigRetryDelay
    /\ targets = <<>>
    /\ OrchIdle
    /\ FetchIdle
    /\ enabled = [k \in 1..Len(SCRAPER_TARGETS) |-> SCRAPER_TARGETS[k].enabled]
    /\ sPc = "filter"
    /\ searchQuery = QueryRedBullCap
    /\ reqMaxResults = 0
    /\ maxResults = HandlerMaxResults(reqMaxResults)
    /\ allProducts \in UNION {[1..n -> ScenarioPool] : n \in 0..MaxProducts}
    /\ successfulSources = <<>>
    /\ uniqueProducts = <<>>
    /\ sortedProducts = <<>>
    /\ finalProducts = <<>>
    /\ totalFound = 0
    /\ cPc = "none"
    /\ userQuery = QueryRedBullCap
    /\ intentReply = [kind |-> "none", intent |-> NoIntent]
    /\ intent \in ScenarioIntents
    /\ filteredProducts = <<>>
    /\ summaryReply = "none"
    /\ summary = NoSummary
    /\ cacheStore = [enabled |-> FALSE, entries |-> {}]
    /\ result = NoSearchResult

NextFilter == FilterStep \/ DedupFilteredStep \/ SortStep \/ SliceStep

SpecFilter == InitFilter /\ [][NextFilter]_vars

----------------------------------------------------------------------------
(* Fetch attempts, with the browsers and pages they use.  A fan-out starts *)
(* one task per target; each task is a retryWithBackoff call around one    *)
(* fetcher: scrapeWithCheerio ("cheerio"), scrapeWithPuppeteer             *)
(* ("puppeteer") or scrapeF1Authentics ("f1") under scrapeMultipleTargets, *)
(* scrapeTargetWithAI ("ai", no retry) under scrapeMultipleTargetsWithAI.  *)
(* A browser process is [service, id], the service being the kind of the   *)
(* fetcher whose service launched it; a field holds an id, 0 for null.     *)

MaxFetches == 2
MaxOpen == 1

SearchKinds == {"cheerio", "puppeteer", "f1"}

NewTask(kind) ==
    [kind |-> kind, pc |-> "pending", i |-> 0, handle |-> 0, page |-> 0,
     errors |-> {}, outcome |-> "none"]

\* this.browser of the service behind a fetcher
FieldOf(kind) ==
    CASE kind = "puppeteer" -> browser
      [] kind = "f1" -> f1Browser
      [] kind = "ai" -> aiBrowser
      [] OTHER -> 0

\* The least id no open object has.
FreeId(used) ==
    CHOOSE n \in 1..(Cardinality(used) + 1) :
        n \notin used /\ \A m \in 1..(n - 1) : m \in used

\* An attempt runs from its call to its first suspension: a rendered fetcher
\* enters initializeBrowser and tests the field there, before any await.
Begun(t) ==
    [t EXCEPT !.errors = {}, !.page = 0,
              !.handle = FieldOf(t.kind),
              !.pc = IF t.kind = "cheerio" THEN "http"
                     ELSE IF FieldOf(t.kind) = 0 THEN "launch"
                     ELSE "newPage"]

AllPending == fetch # <<>> /\ \A k \in DOMAIN fetch : fetch[k].pc = "pending"
AllDone == fetch # <<>> /\ \A k \in DOMAIN fetch : fetch[k].pc = "done"

fetchFrame == <<normVars, orchVars, searchVars, userQuery, intentReply, intent,
                filteredProducts, summaryReply, summary, cacheStore,
                result, traversal>>

\* targets.map(...): every task runs to its first suspension before any
\* awaited promise resolves.
FanOut ==
    /\ AllPending
    /\ fetch' = [k \in DOMAIN fetch |-> Begun(fetch[k])]
    /\ UNCHANGED <<cPc, browser, f1Browser, aiBrowser, openBrowsers,
                   openPages, fetchFrame>>

\* this.browser = await puppeteer.launch(...) resolves for task k.
Launch(k) ==
    /\ fetch[k].pc = "launch"
    /\ LET id == FreeId({b.id : b \in openBrowsers})
           kind == fetch[k].kind
       IN  /\ openBrowsers' = openBrowsers \cup
                                 {[service |-> kind, id |-> id]}
           /\ browser' = IF kind = "puppeteer" THEN id ELSE browser
           /\ f1Browser' = IF kind = "f1" THEN id ELSE f1Browser
           /\ aiBrowser' = IF kind = "ai" THEN id ELSE aiBrowser
           /\ fetch' = [fetch EXCEPT ![k].handle = id, ![k].pc = "newPage"]
    /\ UNCHANGED <<cPc, openPages, fetchFrame>>

\* page = await browser.newPage()
NewPage(k) ==
    /\ fetch[k].pc = "newPage"
    /\ LET id == FreeId(openPages)
       IN  /\ openPages' = openPages \cup {id}
           /\ fetch' = [fetch EXCEPT ![k].page = id, ![k].pc = "goto"]
    /\ UNCHANGED <<cPc, browser, f1Browser, aiBrowser, openBrowsers,
                   fetchFrame>>

\* Variant: a navigation timeout that is logged and passed over.
ProceedsAfterNavigationTimeout == "extract"

\* page.goto rejects: control goes to the catch block.
AfterNavigationTimeout == "catch"

\* await page.goto(searchUrl, {timeout}): it resolves or it times out.
Goto(k) ==
    /\ fetch[k].pc = "goto"
    /\ \/ fetch' = [fetch EXCEPT ![k].pc = "extract"]
       \/ fetch' = [fetch EXCEPT ![k].errors = @ \cup {"navigation"},
                                 ![k].pc = AfterNavigationTimeout]
    /\ UNCHANGED <<cPc, browser, f1Browser, aiBrowser, openBrowsers,
                   openPages, fetchFrame>>

\* What the rest of an attempt leaves of a task.  selectorTimeout: the
\* wait for the product container timed out, which is caught and logged
\* ("continuing anyway").  parseError: an element failed to parse, which
\* the per-element try/catch drops, the other elements being kept.
Extracted(t, selectorTimeout, parseError) ==
    [t EXCEPT !.errors = @ \cup (IF selectorTimeout THEN {"selector"}
                                 ELSE {})
                           \cup (IF parseError THEN {"parse"} ELSE {})]

\* The fetcher returns its listings: retryWithBackoff returns them, and the
\* locals of the call are gone.
Returned(t) ==
    [t EXCEPT !.pc = "done", !.outcome = "success", !.i = 0, !.handle = 0,
              !.page = 0]

\* Only scrapeWithPuppeteer waits for a selector.
WaitsForSelector(kind) == kind = "puppeteer"

\* Only scrapeWithPuppeteer has a page.close() on its way to the return.
ClosesPageOnReturn(kind) == kind = "puppeteer"

\* From the navigation to the return of a rendered fetcher: the selector
\* wait of scrapeWithPuppeteer, the extraction, and the page.close() of
\* scrapeWithPuppeteer.  (The "load more" loops of scrapeF1Authentics and
\* of scrapeTargetWithAI come before the extraction; they change neither
\* browsers nor pages and end under their own catch.  They are the
\* traversal actions.)
Extract(k) ==
    /\ fetch[k].pc = "extract"
    /\ \E selectorTimeout \in {FALSE, WaitsForSelector(fetch[k].kind)},
          parseError \in BOOLEAN :
          fetch' = [fetch EXCEPT
                      ![k] = Returned(Extracted(@, selectorTimeout,
                                                parseError))]
    /\ openPages' = IF ClosesPageOnReturn(fetch[k].kind)
                    THEN openPages \ {fetch[k].page}
                    ELSE openPages
    /\ UNCHANGED <<cPc, browser, f1Browser, aiBrowser, openBrowsers,
                   fetchFrame>>

\* scrapeWithCheerio: axios.get fails, or the document is parsed element by
\* element under the per-element try/catch.
HttpFetch(k) ==
    /\ fetch[k].pc = "http"
    /\ \/ fetch' = [fetch EXCEPT
                      ![k].errors = @ \cup {"navigation"},
                      ![k].pc = AfterNavigationTimeout]
       \/ \E parseError \in BOOLEAN :
             fetch' = [fetch EXCEPT
                         ![k] = Returned(Extracted(@, FALSE, parseError))]
    /\ UNCHANGED <<cPc, browser, f1Browser, aiBrowser, openBrowsers,
                   openPages, fetchFrame>>

\* The catch block of a fetcher.  scrapeWithPuppeteer and
\* scrapeF1Authentics close the page and rethrow into retryWithBackoff,
\* scrapeWithCheerio rethrows, scrapeTargetWithAI returns a failed result.
Catch(k) ==
    /\ fetch[k].pc = "catch"
    /\ LET t == fetch[k] IN
       IF t.kind = "ai"
       THEN /\ fetch' = [fetch EXCEPT ![k].pc = "done", ![k].handle = 0,
                                      ![k].page = 0,
                                      ![k].outcome = "failure"]
            /\ UNCHANGED openPages
       ELSE /\ openPages' = openPages \ {t.page}
            /\ fetch' = [fetch EXCEPT
                           ![k] = IF SleepsAfterFailure(t.i, maxRetries)
                                  THEN [@ EXCEPT !.page = 0,
                                                 !.pc = "backoff"]
                                  ELSE [@ EXCEPT !.page = 0, !.pc = "done",
                                                 !.i = 0, !.handle = 0,
                                                 !.outcome = "failure"]]
    /\ UNCHANGED <<cPc, browser, f1Browser, aiBrowser, openBrowsers,
                   fetchFrame>>

\* retryWithBackoff: the sleep is over, i++, fn is invoked again.
Reattempt(k) ==
    /\ fetch[k].pc = "backoff"
    /\ fetch' = [fetch EXCEPT ![k] = Begun([@ EXCEPT !.i = @ + 1])]
    /\ UNCHANGED <<cPc, browser, f1Browser, aiBrowser, openBrowsers,
                   openPages, fetchFrame>>

\* searchProducts, lines 173-246: scrapeMultipleTargets has returned and
\* the result is built; control reaches the finally block.
FetchesSettle ==
    /\ cPc = "pipeline"
    /\ AllDone
    /\ cPc' = "finally"
    /\ UNCHANGED <<fetchVars, fetchFrame>>

\* The next call of searchProducts once the last has completed, for the
\* same targets (while fewer than MaxOpen browsers and fewer than MaxOpen
\* pages are open).
NextFanOut ==
    /\ cPc = "completed"
    /\ Cardinality(openBrowsers) < MaxOpen
    /\ Cardinality(openPages) < MaxOpen
    /\ cPc' = "pipeline"
    /\ fetch' = [k \in DOMAIN fetch |-> NewTask(fetch[k].kind)]
    /\ UNCHANGED <<browser, f1Browser, aiBrowser, openBrowsers, openPages,
                   fetchFrame>>

\* The kinds of the tasks of one fan-out: one target at most is
\* f1-authentics.
SearchFanOuts ==
    {ks \in UNION {[1..n -> SearchKinds] : n \in 1..MaxFetches} :
        Cardinality({k \in DOMAIN ks : ks[k] = "f1"}) <= 1}

AIFanOuts == UNION {[1..n -> {"ai"}] : n \in 1..MaxFetches}

InitFetch ==
    /\ NormIdle
    /\ maxRetries = ConfigMaxRetries
    /\ baseDelay = ConfigRetryDelay
    /\ targets = <<>>
    /\ OrchIdle
    /\ enabled = [k \in 1..Len(SCRAPER_TARGETS) |-> SCRAPER_TARGETS[k].enabled]
    /\ sPc = "none"
    /\ searchQuery = <<>>
    /\ reqMaxResults = 0
    /\ maxResults = 0
    /\ allProducts = <<>>
    /\ successfulSources = <<>>
    /\ uniqueProducts = <<>>
    /\ sortedProducts = <<>>
    /\ finalProducts = <<>>
    /\ totalFound = 0
    /\ userQuery = <<>>
    /\ intentReply = [kind |-> "none", intent |-> NoIntent]
    /\ intent = NoIntent
    /\ filteredProducts = <<>>
    /\ summaryReply = "none"
    /\ summary = NoSummary
    /\ cacheStore = [enabled |-> FALSE, entries |-> {}]
    /\ result = NoSearchResult
    /\ browser = 0
    /\ f1Browser = 0
    /\ aiBrowser = 0
    /\ openBrowsers = {}
    /\ openPages = {}
    /\ traversal = NoTraversal
    /\ \/ /\ cPc = "pipeline"
          /\ \E ks \in SearchFanOuts :
                fetch = [k \in DOMAIN ks |-> NewTask(ks[k])]
       \/ /\ cPc = "none"
          /\ \E ks \in AIFanOuts :
                fetch = [k \in DOMAIN ks |-> NewTask(ks[k])]

NextFetch ==
    \/ FanOut
    \/ \E k \in DOMAIN fetch :
          \/ Launch(k)
          \/ NewPage(k)
          \/ Goto(k)
          \/ Extract(k)
          \/ HttpFetch(k)
          \/ Catch(k)
          \/ Reattempt(k)
    \/ FetchesSettle
    \/ Finally
    \/ NextFanOut

SpecFetch == InitFetch /\ [][NextFetch]_vars

\* The positions of an attempt at which its page exists.
PageInUse == {"goto", "extract", "catch"}

\* C16: once a searchProducts call has completed, no browser launched by
\* the generic rendered fetcher or by the F1 Authentics fetcher is open.
C16_BrowserRelease ==
    cPc = "completed" =>
        \A b \in openBrowsers : b.service \notin {"puppeteer", "f1"}

\* C17: every browser process ScraperService has launched and that is still
\* open is the one its browser field refers to, and the rendered fetches of
\* ScraperService that hold a handle hold the same one.
C17_OneSharedBrowser ==
    /\ \A b \in openBrowsers : b.service = "puppeteer" => b.id = browser
    /\ \A j, k \in DOMAIN fetch :
          (fetch[j].kind = "puppeteer" /\ fetch[k].kind = "puppeteer"
              /\ fetch[j].handle # 0 /\ fetch[k].handle # 0)
            => fetch[j].handle = fetch[k].handle

\* C18: every open page belongs to a fetch attempt that has neither
\* returned nor thrown yet.
C18_PagesClosed ==
    \A p \in openPages :
        \E k \in DOMAIN fetch :
            fetch[k].page = p /\ fetch[k].pc \in PageInUse

----------------------------------------------------------------------------
(* The "load more" traversals: the while loop of scrapeF1Authentics        *)
(* (part_000, lines 502-542) and loadMoreProducts of the AI scraper        *)
(* (ai-scraper.service.ts, lines 172-260).  found records, per attempt,    *)
(* what the attempt met: "clicked" (a control was found and clicked),      *)
(* "absent" (no control was found) or "error" (an operation of the attempt *)
(* threw out of the loop body).  clickRejected records whether a click of  *)
(* the traversal has rejected.                                             *)

F1MaxAttempts == 5
AILoadMoreTries == 6
TargetProductCount == 42

\* What $$eval may count after a click.
ProductCounts == {12, 24, 36, TargetProductCount}

\* Variant: loops that allow one turn more.
LoopGoesOnInclusive(t) ==
    IF t.kind = "f1" THEN t.clicks <= F1MaxAttempts
    ELSE t.attempts <= AILoadMoreTries

\* while (loadMoreAttempts < maxAttempts) / for (let i = 0; i < 6; i++)
LoopGoesOn(t) ==
    IF t.kind = "f1" THEN t.clicks < F1MaxAttempts
    ELSE t.attempts < AILoadMoreTries

\* Variant: a loop that looks again after it found no control.
LooksAgainAfterAbsent == "loop"

\* No control found: break.
AfterAbsent == "extract"

Attempted(t, what) ==
    [t EXCEPT !.attempts = @ + 1, !.found = Append(@, what)]

\* One turn of the loop.  In loadMoreProducts each selector is tried under
\* its own try/catch, so that a click that rejects sends the turn on to the
\* next selector and to the text search; in scrapeF1Authentics the click is
\* under the catch of the loop body, which breaks.
LoadMoreAttempt ==
    /\ traversal.pc = "loop"
    /\ LoopGoesOn(traversal)
    /\ \/ \* no selector finds a control (and, in the AI scraper, the text
          \* search finds none either)
          traversal' = [Attempted(traversal, "absent")
                           EXCEPT !.pc = AfterAbsent]
       \/ \* a control is found and the click resolves
          /\ traversal.kind = "f1"
          /\ traversal' = [Attempted(traversal, "clicked")
                              EXCEPT !.clicks = @ + 1]
       \/ \* scrapeF1Authentics: the click rejects, the catch breaks
          /\ traversal.kind = "f1"
          /\ traversal' = [Attempted(traversal, "error")
                              EXCEPT !.clickRejected = TRUE,
                                     !.pc = "extract"]
       \/ \* loadMoreProducts: every click of the turn rejects, nothing is
          \* clicked: break
          /\ traversal.kind = "ai"
          /\ traversal' = [Attempted(traversal, "absent")
                              EXCEPT !.clickRejected = TRUE,
                                     !.pc = AfterAbsent]
       \/ \* loadMoreProducts: clicked (after a click that rejected or
          \* not), then the products are counted
          /\ traversal.kind = "ai"
          /\ \E n \in ProductCounts, rejected \in BOOLEAN :
                traversal' = [Attempted(traversal, "clicked")
                                 EXCEPT !.clicks = @ + 1,
                                        !.productCount = n,
                                        !.clickRejected = @ \/ rejected,
                                        !.pc = IF n >= TargetProductCount
                                               THEN "extract" ELSE "loop"]
       \/ \* loadMoreProducts: clicked, then the count throws into the
          \* outer catch
          /\ traversal.kind = "ai"
          /\ traversal' = [Attempted(traversal, "error")
                              EXCEPT !.clicks = @ + 1, !.pc = "extract"]
    /\ UNCHANGED <<normVars, orchVars, searchVars, coordVars>>
    /\ UNCHANGED <<fetch, browser, f1Browser, aiBrowser, openBrowsers,
                   openPages>>

\* The loop condition fails: the ceiling is reached.
LoopEnds ==
    /\ traversal.pc = "loop"
    /\ ~LoopGoesOn(traversal)
    /\ traversal' = [traversal EXCEPT !.pc = "extract"]
    /\ UNCHANGED <<normVars, orchVars, searchVars, coordVars>>
    /\ UNCHANGED <<fetch, browser, f1Browser, aiBrowser, openBrowsers,
                   openPages>>

\* Extraction follows the traversal however it ended: page.evaluate in
\* scrapeF1Authentics, page.content() in scrapeTargetWithAI.
ExtractAfterTraversal ==
    /\ traversal.pc = "extract"
    /\ traversal' = [traversal EXCEPT !.pc = "extracted"]
    /\ UNCHANGED <<normVars, orchVars, searchVars, coordVars>>
    /\ UNCHANGED <<fetch, browser, f1Browser, aiBrowser, openBrowsers,
                   openPages>>

InitTraverse ==
    /\ NormIdle
    /\ maxRetries = ConfigMaxRetries
    /\ baseDelay = ConfigRetryDelay
    /\ targets = <<>>
    /\ OrchIdle
    /\ enabled = [k \in 1..Len(SCRAPER_TARGETS) |-> SCRAPER_TARGETS[k].enabled]
    /\ sPc = "none"
    /\ searchQuery = <<>>
    /\ reqMaxResults = 0
    /\ maxResults = 0
    /\ allProducts = <<>>
    /\ successfulSources = <<>>
    /\ uniqueProducts = <<>>
    /\ sortedProducts = <<>>
    /\ finalProducts = <<>>
    /\ totalFound = 0
    /\ userQuery = <<>>
    /\ intentReply = [kind |-> "none", intent |-> NoIntent]
    /\ intent = NoIntent
    /\ filteredProducts = <<>>
    /\ summaryReply = "none"
    /\ summary = NoSummary
    /\ cacheStore = [enabled |-> FALSE, entries |-> {}]
    /\ result = NoSearchResult
    /\ browser = 0
    /\ f1Browser = 0
    /\ aiBrowser = 0
    /\ openBrowsers = {}
    /\ openPages = {}
    /\ cPc = "none"
    /\ fetch = <<>>
    /\ \E kind \in {"f1", "ai"} :
          traversal = [NoTraversal EXCEPT !.kind = kind, !.pc = "loop"]

NextTraverse == LoadMoreAttempt \/ LoopEnds \/ ExtractAfterTraversal

SpecTraverse == InitTraverse /\ [][NextTraverse]_vars

CountOf(what) ==
    Cardinality({n \in 1..Len(traversal.found) : traversal.found[n] = what})

PresentThriceThenAbsent == <<"clicked", "clicked", "clicked", "absent">>

C21_BoundedTraversal ==
    /\ traversal.kind = "f1" => traversal.clicks <= F1MaxAttempts
    /\ traversal.kind = "ai" =>
          /\ traversal.clicks <= AILoadMoreTries
          /\ traversal.attempts <= AILoadMoreTries
    /\ traversal.productCount >= TargetProductCount =>
          traversal.pc \in {"extract", "extracted"}
    /\ (traversal.kind = "f1" /\ traversal.clickRejected) =>
          traversal.pc \in {"extract", "extracted"}
    /\ CountOf("error") > 0 => traversal.pc \in {"extract", "extracted"}
    /\ traversal.pc \in {"loop", "extract", "extracted"}
    /\ (traversal.pc = "extract" => ENABLED ExtractAfterTraversal)

\* C21 witness: the control was there on every turn of the F1 Authentics
\* traversal; it clicked 5 times and went on to extraction.
C21_Witness ==
    /\ traversal.kind = "f1"
    /\ traversal.clicks = F1MaxAttempts
    /\ CountOf("clicked") = F1MaxAttempts
    /\ traversal.pc = "extracted"

\* C21 as stated, its last clause: a click that rejects ends the traversal.
C21_ClickErrorEnds ==
    /\ traversal.kind = "f1" => traversal.clicks <= F1MaxAttempts
    /\ traversal.kind = "ai" => traversal.clicks <= AILoadMoreTries
    /\ traversal.productCount >= TargetProductCount =>
          traversal.pc \in {"extract", "extracted"}
    /\ traversal.clickRejected => traversal.pc \in {"extract", "extracted"}

----------------------------------------------------------------------------
(* AI extraction: extractProductsWithAI (ai-scraper.service.ts, lines      *)
(* 125-167) and the return of scrapeTargetWithAI (lines 92-106).           *)

\* An item of the products array of a reply, field by field; Undefined for
\* a field the item does not have.  Amounts are in hundredths.
AIItem(id, name, amount, availability, source, scrapedAt) ==
    [id |-> id, name |-> name, amount |-> amount,
     availability |-> availability, source |-> source,
     scrapedAt |-> scrapedAt]

\* An item as the extraction prompt asks for it (lines 346-358), an item
\* with values outside the Product contract, and an empty object.
AIItems ==
    { AIItem(Undefined, "Cap", 9999, "IN_STOCK", Undefined, Undefined),
      AIItem(Undefined, "Hat", -500, "AVAILABLE", Undefined, Undefined),
      AIItem(Undefined, Undefined, Undefined, Undefined, Undefined,
             Undefined) }

\* What a products field may hold.
ProductsFields ==
    { JsonValue("undefined", <<>>), JsonValue("null", <<>>),
      JsonValue("string", <<>>), EmptyArray }
    \cup { JsonValue("array", << a >>) : a \in AIItems }
    \cup { JsonValue("array", << a, b >>) : a, b \in AIItems }

\* What the completion comes back with: the call rejects ("error"), the
\* reply has no content ("empty"), the content is not JSON ("invalid"), or
\* it parses to null, to a number, or to an object with its products field.
AIReplies ==
    { [kind |-> k, value |-> Undefined] :
          k \in {"error", "empty", "invalid", "null", "number"} }
    \cup { [kind |-> "object", value |-> v] : v \in ProductsFields }

\* Variant: a catch block that rethrows.
RethrowExtractionError == [raised |-> TRUE, products |-> EmptyArray]

\* catch (error) { logger.error(...); return []; }
OnExtractionError == [raised |-> FALSE, products |-> EmptyArray]

\* A value that JavaScript's || passes over.
Falsy(v) == v.type \in {"undefined", "null"}

\* The try block: the call rejects, `!content` throws, JSON.parse throws,
\* or reading .products of null throws; otherwise parsed.products || [].
extractProductsWithAI(reply) ==
    IF reply.kind \in {"error", "empty", "invalid", "null"}
    THEN OnExtractionError
    ELSE IF reply.kind = "number"
         THEN [raised |-> FALSE, products |-> EmptyArray]
         ELSE [raised |-> FALSE,
               products |-> IF Falsy(reply.value) THEN EmptyArray
                            ELSE reply.value]

\* scrapeTargetWithAI from line 93: the products go into the result as
\* they are; an exception would reach the catch of lines 108-119.
scrapeTargetWithAI(reply, name) ==
    LET x == extractProductsWithAI(reply)
    IN  IF x.raised
        THEN [raised |-> TRUE, success |-> FALSE, products |-> EmptyArray,
              source |-> name]
        ELSE [raised |-> FALSE, success |-> TRUE, products |-> x.products,
              source |-> name]

normFrame == <<orchVars, searchVars, coordVars, fetchVars, registryVars,
              apiVars, serviceVars>>

\* this.openai.chat.completions.create(...) settles.
CompletionSettles ==
    /\ nPc = "completion"
    /\ \E reply \in AIReplies : aiReply' = reply
    /\ nPc' = "extraction"
    /\ UNCHANGED <<aiResult, rawListing, clock, built, elements, returned,
                   normFrame>>

\* extractProductsWithAI returns and scrapeTargetWithAI with it.
AIScrapeReturns ==
    /\ nPc = "extraction"
    /\ aiResult' = scrapeTargetWithAI(aiReply, aiResult.source)
    /\ nPc' = "aiReturned"
    /\ UNCHANGED <<aiReply, rawListing, clock, built, elements, returned,
                   normFrame>>

\* Everything but the extraction and normalization variables at rest.
RestIdle ==
    /\ maxRetries = ConfigMaxRetries
    /\ baseDelay = ConfigRetryDelay
    /\ targets = <<>>
    /\ OrchIdle
    /\ enabled = [k \in 1..Len(SCRAPER_TARGETS) |-> SCRAPER_TARGETS[k].enabled]
    /\ sPc = "none"
    /\ searchQuery = <<>>
    /\ reqMaxResults = 0
    /\ maxResults = 0
    /\ allProducts = <<>>
    /\ successfulSources = <<>>
    /\ uniqueProducts = <<>>
    /\ sortedProducts = <<>>
    /\ finalProducts = <<>>
    /\ totalFound = 0
    /\ CoordIdle
    /\ FetchIdle

\* scrapeTargetWithAI(target, query) has the page's markup.
InitAIScrape ==
    /\ nPc = "completion"
    /\ aiReply = [kind |-> "none", value |-> Undefined]
    /\ \E k \in 1..Len(SCRAPER_TARGETS) :
          aiResult = [NoAIResult EXCEPT !.source = SCRAPER_TARGETS[k].name]
    /\ rawListing = NoRawListing
    /\ clock = 0
    /\ built = <<>>
    /\ elements = <<>>
    /\ returned = <<>>

\* C22: extractProductsWithAI never raises; it returns the empty sequence
\* when the call fails, when the reply has no content, when the content is
\* not JSON, and when the parsed value has no products field.
C22_ExtractionNeverRaises ==
    nPc = "aiReturned" =>
        /\ ~aiResult.raised
        /\ aiResult.success
        /\ aiReply.kind \in {"error", "empty", "invalid"} =>
              aiResult.products = EmptyArray
        /\ (aiReply.kind = "object" /\ aiReply.value.type = "undefined") =>
              aiResult.products = EmptyArray

\* C22 witness: the content was not JSON and the outcome is a success with
\* no products.
C22_Witness ==
    /\ nPc = "aiReturned"
    /\ aiReply.kind = "invalid"
    /\ aiResult.success
    /\ aiResult.products = EmptyArray

AvailabilityStatuses == {"IN_STOCK", "OUT_OF_STOCK", "LIMITED_STOCK"}

\* C23: every product in an outcome of scrapeTargetWithAI has a generated
\* id, the target's display name as source, a scrape timestamp, an amount
\* that is not negative and one of the three availability values.
C23_AIProductsNormalized ==
    (nPc = "aiReturned" /\ aiResult.products.type = "array") =>
        \A n \in 1..Len(aiResult.products.items) :
            LET q == aiResult.products.items[n]
            IN  /\ q.id # Undefined
                /\ q.source = aiResult.source
                /\ q.scrapedAt # Undefined
                /\ q.amount # Undefined /\ q.amount >= 0
                /\ q.availability \in AvailabilityStatuses

----------------------------------------------------------------------------
(* Product normalization: normalizePrice and sanitizeText                   *)
(* (utils/helpers.ts), determineAvailability and transformRawProduct       *)
(* (services/scraper.service.ts), and the Product construction of          *)
(* scrapeF1Authentics.  Amounts are in hundredths.  The euro and pound     *)
(* signs are written "euro-sign" and "pound-sign", one character each.     *)

EuroSign == "euro-sign"
PoundSign == "pound-sign"

IsDigit(c) == c \in Digits

DigitValue(c) == (CHOOSE n \in 1..10 : DigitChars[n] = c) - 1

NotSpace(c) == c # " "

NonEmpty(str) == str # <<>>

\* The end of the longest run of digits that starts at i (i - 1 if none).
DigitRunEnd(str, i) ==
    CHOOSE e \in (i - 1)..Len(str) :
        /\ \A j \in i..e : IsDigit(str[j])
        /\ e = Len(str) \/ ~IsDigit(str[e + 1])

\* The end of what \d+\.?\d* takes from the digit at i.
NumberEnd(str, i) ==
    LET e == DigitRunEnd(str, i)
    IN  IF e < Len(str) /\ str[e + 1] = "."
        THEN DigitRunEnd(str, e + 2)
        ELSE e

FollowedBy(str, e, word) ==
    /\ e + Len(word) <= Len(str)
    /\ SubSeq(str, e + 1, e + Len(word)) = word

\* The six patterns of normalizePrice, in its order: a sign before the
\* number or a currency code after it.
PricePatterns ==
    << [sign |-> "$", code |-> <<>>],
       [sign |-> EuroSign, code |-> <<>>],
       [sign |-> PoundSign, code |-> <<>>],
       [sign |-> "", code |-> <<"u", "s", "d">>],
       [sign |-> "", code |-> <<"e", "u", "r">>],
       [sign |-> "", code |-> <<"g", "b", "p">>] >>

\* The positions at which pattern p matches: where its number starts.
MatchStarts(str, p) ==
    IF p.sign # ""
    THEN {i \in 2..Len(str) : str[i - 1] = p.sign /\ IsDigit(str[i])}
    ELSE {i \in 1..Len(str) :
             IsDigit(str[i]) /\ FollowedBy(str, NumberEnd(str, i), p.code)}

Least(S) == CHOOSE n \in S : \A m \in S : n <= m

\* match[1] of the leftmost match of pattern p
Captured(str, p) ==
    LET i == Least(MatchStarts(str, p))
    IN  SubSeq(str, i, NumberEnd(str, i))

RECURSIVE DigitsValue(_)
DigitsValue(ds) ==
    IF ds = <<>> THEN 0
    ELSE 10 * DigitsValue(SubSeq(ds, 1, Len(ds) - 1))
         + DigitValue(ds[Len(ds)])

\* parseFloat of a captured number, in hundredths.  (The price texts of
\* the model have at most two digits after the point.)
ParseFloat(num) ==
    LET e == DigitRunEnd(num, 1)
        frac == SubSeq(num, e + 2, Len(num))
    IN  100 * DigitsValue(SubSeq(num, 1, e))
        + (IF Len(frac) >= 1 THEN 10 * DigitValue(frac[1]) ELSE 0)
        + (IF Len(frac) >= 2 THEN DigitValue(frac[2]) ELSE 0)

\* Number.prototype.toFixed(2) of an amount in hundredths
ToFixed2(h) ==
    DecimalString(h \div 100)
    \o << ".", DigitChars[((h % 100) \div 10) + 1], DigitChars[(h % 10) + 1] >>

CurrencySymbol(currency) ==
    CASE currency = "USD" -> "$"
      [] currency = "EUR" -> EuroSign
      [] currency = "GBP" -> PoundSign

PriceNotAvailable == <<"P", "r", "i", "c", "e", " ", "n", "o", "t", " ", "a", "v", "a", "i", "l", "a", "b", "l", "e">>

\* Variant: a price formatted whatever its amount.
AlwaysFormatted(amount) == TRUE

\* amount > 0 ? symbol + toFixed(2) : 'Price not available'
HasPrice(amount) == amount > 0

normalizePrice(priceText) ==
    LET cleanText == ToLowerCase(SelectSeq(priceText, NotSpace))
        matching == {n \in 1..Len(PricePatterns) :
                        MatchStarts(cleanText, PricePatterns[n]) # {}}
        matched == matching # {}
        amount == IF matched
                  THEN ParseFloat(Captured(cleanText,
                                           PricePatterns[Least(matching)]))
                  ELSE 0
        currency ==
            IF ~matched THEN "USD"
            ELSE IF Includes(cleanText, << EuroSign >>)
                      \/ Includes(cleanText, <<"e", "u", "r">>)
                 THEN "EUR"
                 ELSE IF Includes(cleanText, << PoundSign >>)
                           \/ Includes(cleanText, <<"g", "b", "p">>)
                      THEN "GBP"
                      ELSE "USD"
    IN  [amount |-> amount,
         formattedAmount |-> IF HasPrice(amount)
                             THEN << CurrencySymbol(currency) >>
                                  \o ToFixed2(amount)
                             ELSE PriceNotAvailable,
         currency |-> currency]

determineAvailability(text) ==
    LET lowerText == ToLowerCase(text)
    IN  IF \/ Includes(lowerText, <<"o", "u", "t", " ", "o", "f", " ", "s", "t", "o", "c", "k">>)
           \/ Includes(lowerText, <<"u", "n", "a", "v", "a", "i", "l", "a", "b", "l", "e">>)
           \/ Includes(lowerText, <<"s", "o", "l", "d", " ", "o", "u", "t">>)
        THEN "OUT_OF_STOCK"
        ELSE IF \/ Includes(lowerText, <<"l", "i", "m", "i", "t", "e", "d">>)
                \/ Includes(lowerText, <<"f", "e", "w", " ", "l", "e", "f", "t">>)
                \/ Includes(lowerText, <<"l", "o", "w", " ", "s", "t", "o", "c", "k">>)
             THEN "LIMITED_STOCK"
             ELSE "IN_STOCK"

\* [\w\s$...-]: what sanitizeText keeps
KeptBySanitize(c) ==
    \/ c \in Range(LowerCase) \cup Range(UpperCase) \cup Digits
    \/ c \in {"_", " ", "$", EuroSign, PoundSign, ".", ",", "!", "?", "-"}

\* text.trim().replace(/\s+/g, ' ').replace(/[^\w\s$...-]/g, '')
sanitizeText(text) ==
    SelectSeq(JoinWithSpace(SelectSeq(SplitOnSpace(text), NonEmpty)),
              KeptBySanitize)

\* generateId(prefix): the prefix, the clock reading and a random part
generateId(prefix, now, random) ==
    [prefix |-> prefix, timestamp |-> now, random |-> random]

\* The display name of the target with this id.
NameOfTarget(id) ==
    SCRAPER_TARGETS[CHOOSE k \in 1..Len(SCRAPER_TARGETS) :
                        SCRAPER_TARGETS[k].id = id].name

\* scrapedAt: new Date()
ScrapedAt(now) == now

\* transformRawProduct(raw, target), and the same construction in
\* scrapeF1Authentics for the listings of f1-authentics.  idNow and now are
\* the clock readings of generateId and of new Date().
transformRawProduct(raw, idNow, random, now) ==
    [id |-> generateId(raw.target, idNow, random),
     name |-> sanitizeText(raw.name),
     price |-> normalizePrice(raw.price),
     availability |-> determineAvailability(raw.availability),
     source |-> NameOfTarget(raw.target),
     scrapedAt |-> ScrapedAt(now)]

MaxPriceTokens == 3
MaxClock == 1

\* The pieces the price texts of the model are made of.
PriceTokens ==
    { << "$" >>, << EuroSign >>, << "1" >>, << "0" >>, << ".", "5" >>,
      << "." >>, << " " >>, <<"U", "S", "D">>, <<"e", "u", "r">> }

RECURSIVE Flatten(_)
Flatten(ss) == IF ss = <<>> THEN <<>> ELSE Head(ss) \o Flatten(Tail(ss))

PriceTexts ==
    { Flatten(ts) :
        ts \in UNION {[1..n -> PriceTokens] : n \in 0..MaxPriceTokens} }

AvailabilityTexts ==
    { <<>>, <<"I", "n", " ", "S", "t", "o", "c", "k">>, <<"S", "O", "L", "D", " ", "O", "U", "T">>, <<"O", "n", "l", "y", " ", "f", "e", "w", " ", "l", "e", "f", "t">>,
      <<"L", "i", "m", "i", "t", "e", "d", " ", "-", " ", "o", "u", "t", " ", "o", "f", " ", "s", "t", "o", "c", "k">> }

RawNames == { NameCap, <<" ", "R", "e", "d", " ", " ", "B", "u", "l", "l", " ", "#", "1", " ">> }

Randoms == {"k3j9x2a", "p0q8w7e"}

\* Raw listings: every price text under one name and availability, and
\* every name and availability text under one price.
RawListings ==
    { [name |-> NameCap, price |-> p, availability |-> <<"I", "n", " ", "S", "t", "o", "c", "k">>,
       target |-> "ebay"] :
          p \in PriceTexts }
    \cup { [name |-> n, price |-> << "$", "1" >>, availability |-> a,
            target |-> t] :
              n \in RawNames, a \in AvailabilityTexts,
              t \in {"ebay", "f1-authentics"} }

\* Variant: the raw listing is replaced between two constructions.
AnyListingAfterBuild == RawListings

\* transformRawProduct only reads raw: the listing is the same afterwards.
ListingAfterBuild == {rawListing}

\* A Product is built from rawListing; the clock is read for the id and
\* again for scrapedAt.
BuildProduct ==
    /\ nPc = "transform"
    /\ Len(built) < 2
    /\ \E idNow \in clock..MaxClock, random \in Randoms :
          \E now \in idNow..MaxClock :
             /\ clock' = now
             /\ built' = Append(built, transformRawProduct(rawListing, idNow,
                                                           random, now))
    /\ rawListing' \in ListingAfterBuild
    /\ UNCHANGED <<nPc, aiReply, aiResult, elements, returned, normFrame>>

InitTransform ==
    /\ nPc = "transform"
    /\ aiReply = [kind |-> "none", value |-> Undefined]
    /\ aiResult = NoAIResult
    /\ rawListing \in RawListings
    /\ clock = 0
    /\ built = <<>>
    /\ elements = <<>>
    /\ returned = <<>>

\* Most segments a page of the model is made of.
MaxSegments == 4

\* text.trim()
RECURSIVE TrimStart(_)
TrimStart(str) ==
    IF str # <<>> /\ Head(str) = " " THEN TrimStart(Tail(str)) ELSE str

RECURSIVE TrimEnd(_)
TrimEnd(str) ==
    IF str # <<>> /\ str[Len(str)] = " "
    THEN TrimEnd(SubSeq(str, 1, Len(str) - 1))
    ELSE str

Trim(str) == TrimEnd(TrimStart(str))

\* The element at position i of a page: a listing, or an element without a
\* name, without a price, or one whose parsing throws.
ItemName(i) == <<"i", "t", "e", "m">> \o DecimalString(i)

Element(i, kind) ==
    [nameText |-> IF kind = "noName" THEN << " " >> ELSE ItemName(i) \o << " " >>,
     priceText |-> IF kind = "noPrice" THEN <<>> ELSE << "$", "1" >>,
     throws |-> kind = "throws"]

\* The pieces the pages of the model are made of: five listings in a row,
\* one listing, or one element that yields no product.
Segments == {"five", "one", "noName", "noPrice", "throws"}

KindsOf(segment) ==
    CASE segment = "five" -> [i \in 1..5 |-> "listing"]
      [] segment = "one" -> << "listing" >>
      [] OTHER -> << segment >>

PageOf(segments) ==
    LET kinds == Flatten([i \in 1..Len(segments) |-> KindsOf(segments[i])])
    IN  [i \in 1..Len(kinds) |-> Element(i, kinds[i])]

Pages ==
    { PageOf(segments) :
        segments \in UNION {[1..n -> Segments] : n \in 0..MaxSegments} }

\* if (name && priceText), in a try block whose catch logs and goes on
Extractable(el) ==
    /\ ~el.throws
    /\ Trim(el.nameText) # <<>>
    /\ Trim(el.priceText) # <<>>

\* The .each loop of scrapeWithCheerio: the Products of the elements that
\* have a name and a price, in page order.  (One clock reading and one
\* random part stand for those of every element.)
RECURSIVE ParsedProducts(_, _, _)
ParsedProducts(els, now, random) ==
    IF els = <<>> THEN <<>>
    ELSE (IF Extractable(Head(els))
          THEN << transformRawProduct(
                      [name |-> Trim(Head(els).nameText),
                       price |-> Trim(Head(els).priceText),
                       availability |-> <<"I", "n", " ", "S", "t", "o", "c", "k">>,
                       target |-> "ebay"],
                      now, random, now) >>
          ELSE <<>>)
         \o ParsedProducts(Tail(els), now, random)

\* Variant: every parsed product is returned.
EveryParsedProduct(products) == products

\* return products.slice(0, 10)
ReturnedFromCheerio(products) == Slice0(products, 10)

\* scrapeWithCheerio from the loaded page to its return.
ScrapeWithCheerio ==
    /\ nPc = "cheerio"
    /\ \E now \in clock..MaxClock, random \in Randoms :
          /\ clock' = now
          /\ built' = ParsedProducts(elements, now, random)
    /\ returned' = ReturnedFromCheerio(built')
    /\ nPc' = "cheerioReturned"
    /\ UNCHANGED <<aiReply, aiResult, rawListing, elements, normFrame>>

InitCheerio ==
    /\ nPc = "cheerio"
    /\ aiReply = [kind |-> "none", value |-> Undefined]
    /\ aiResult = NoAIResult
    /\ rawListing = NoRawListing
    /\ clock = 0
    /\ built = <<>>
    /\ elements \in Pages
    /\ returned = <<>>

InitNorm ==
    /\ RestIdle
    /\ registry = <<>>
    /\ listed = <<>>
    /\ found = <<>>
    /\ ApiIdle
    /\ ServiceIdle
    /\ InitAIScrape \/ InitTransform \/ InitCheerio

NextNorm ==
    \/ CompletionSettles
    \/ AIScrapeReturns
    \/ BuildProduct
    \/ ScrapeWithCheerio

SpecNorm == InitNorm /\ [][NextNorm]_vars

\* Reading a formatted amount back: the amount between the sign and the end.
ReadBack(formatted) == ParseFloat(Tail(formatted))

\* C24: every Product built has an amount that is not negative and one of
\* the three availability values; its formattedAmount is the placeholder
\* exactly when the amount is not positive, and otherwise the symbol of its
\* currency followed by the amount with two decimals.
C24_ProductInvariants ==
    \A n \in 1..Len(built) :
        LET q == built[n]
            f == q.price.formattedAmount
        IN  /\ q.price.amount >= 0
            /\ q.availability \in AvailabilityStatuses
            /\ q.price.currency \in {"USD", "EUR", "GBP"}
            /\ (f = PriceNotAvailable) <=> (q.price.amount = 0)
            /\ q.price.amount > 0 =>
                  /\ Head(f) = CurrencySymbol(q.price.currency)
                  /\ Len(f) >= 5
                  /\ f[Len(f) - 2] = "."
                  /\ \A j \in 2..Len(f) : j # Len(f) - 2 => IsDigit(f[j])
                  /\ ReadBack(f) = q.price.amount

\* C24 witness: a Product with the amount 1.50, formatted as "$1.50", has
\* been built.
C24_Witness ==
    \E n \in 1..Len(built) :
        /\ built[n].price.amount = 150
        /\ built[n].price.formattedAmount = << "$", "1", ".", "5", "0" >>

\* The fields of a Product other than its id and its scrape timestamp.
NormalizedFields == {"name", "price", "availability", "source"}

\* transformRawProduct has been applied twice to rawListing.
BuiltTwice == nPc = "transform" /\ Len(built) = 2

Contributed ==
    {k \in 1..Len(scraperResults) :
        scraperResults[k].success /\ Len(scraperResults[k].products) > 0}

\* C26: once the outcomes are collected, sources lists the display names of
\* the targets whose outcome succeeded with at least one product, in
\* outcome order, and no other target; every product of the returned list
\* has its source in that list.
C26_SourcesContributed ==
    sPc \in {"dedup", "sort", "slice", "done"} =>
        /\ Len(successfulSources) = Cardinality(Contributed)
        /\ \A n \in 1..Len(successfulSources) :
              successfulSources[n] = targets[NthOf(Contributed, n)].name
        /\ \A k \in (1..Len(scraperResults)) \ Contributed :
              targets[k].name \notin Range(successfulSources)
        /\ sPc = "done" =>
              \A i \in 1..Len(finalProducts) :
                  finalProducts[i].source \in Range(successfulSources)

\* C26 witness: a search has ended with products, with one target that
\* failed or found nothing and another that contributed.
C26_Witness ==
    /\ sPc = "done"
    /\ Len(finalProducts) > 0
    /\ Contributed # {}
    /\ \E k \in 1..Len(scraperResults) :
          /\ k \notin Contributed
          /\ \E j \in Contributed : j > k

----------------------------------------------------------------------------
(* The cache across requests that differ: searchProducts is called again   *)
(* and again with any of the messages and result caps below.               *)

MaxCached == 1

QueryCAP == <<"C", "A", "P">>
QueryCapColon == <<"c", "a", "p", ":", "1">>

CacheQueries == {QueryCap, QueryCAP, QueryCapColon}

CacheMaxResults == {0, 1}

\* The handler calls searchProducts with another message and maxResults;
\* the cache stays.
NextRequest ==
    /\ cPc = "completed"
    /\ Cardinality(cacheStore.entries) <= MaxCached
    /\ cPc' = "cache"
    /\ sPc' = "entry"
    /\ mainPc' = "idle"
    /\ targets' = <<>>
    /\ retry' = <<>>
    /\ lastOutcome' = <<>>
    /\ promise' = <<>>
    /\ settleOrder' = <<>>
    /\ scraperResults' = <<>>
    /\ searchQuery' = <<>>
    /\ allProducts' = <<>>
    /\ successfulSources' = <<>>
    /\ uniqueProducts' = <<>>
    /\ sortedProducts' = <<>>
    /\ finalProducts' = <<>>
    /\ totalFound' = 0
    /\ intentReply' = [kind |-> "none", intent |-> NoIntent]
    /\ intent' = NoIntent
    /\ summaryReply' = "none"
    /\ summary' = NoSummary
    /\ result' = NoSearchResult
    /\ userQuery' \in CacheQueries
    /\ reqMaxResults' \in CacheMaxResults
    /\ maxResults' = HandlerMaxResults(reqMaxResults')
    /\ UNCHANGED <<normVars, maxRetries, baseDelay, enabled,
                   filteredProducts, cacheStore, fetchVars>>

\* The first call of a process with the catalog as it is configured.
InitCache ==
    /\ NormIdle
    /\ maxRetries = ConfigMaxRetries
    /\ baseDelay = ConfigRetryDelay
    /\ targets = <<>>
    /\ OrchIdle
    /\ FetchIdle
    /\ enabled = [k \in 1..Len(SCRAPER_TARGETS) |-> SCRAPER_TARGETS[k].enabled]
    /\ sPc = "entry"
    /\ searchQuery = <<>>
    /\ reqMaxResults \in CacheMaxResults
    /\ maxResults = HandlerMaxResults(reqMaxResults)
    /\ allProducts = <<>>
    /\ successfulSources = <<>>
    /\ uniqueProducts = <<>>
    /\ sortedProducts = <<>>
    /\ finalProducts = <<>>
    /\ totalFound = 0
    /\ cPc = "cache"
    /\ userQuery \in CacheQueries
    /\ intentReply = [kind |-> "none", intent |-> NoIntent]
    /\ intent = NoIntent
    /\ filteredProducts = <<>>
    /\ summaryReply = "none"
    /\ summary = NoSummary
    /\ cacheStore \in [enabled : BOOLEAN, entries : {{}}]
    /\ result = NoSearchResult

NextCache ==
    \/ CacheLookup
    \/ IntentStep
    \/ GetTargets
    \/ StartAll
    \/ \E k \in Idx : ScrapeTargetCompletes(k)
    \/ ReturnResults
    \/ CollectProducts
    \/ RemoveDuplicatesStep
    \/ SortStep
    \/ SliceStep
    \/ SummaryStep
    \/ Finally
    \/ NextRequest

SpecCache == InitCache /\ [][NextCache]_vars

\* The entry the lookup of this step returns came from a call with the same
\* lower-cased message and the same maxResults.
ReturnsMatchingEntry ==
    \E e \in cacheStore.entries :
        /\ result' = e.data
        /\ ToLowerCase(e.storedFor.userQuery) = ToLowerCase(userQuery)
        /\ e.storedFor.maxResults = maxResults

\* No intent was extracted, nothing scraped and no summary generated.
NothingPerformed ==
    /\ intentReply.kind = "none"
    /\ summaryReply = "none"
    /\ mainPc = "idle"
    /\ sPc = "entry"

\* C27: the cache lookup either returns an entry stored by a search with the
\* same lower-cased query text and the same maxResults, and then the call
\* ends without intent extraction, scraping or summary generation; or it
\* misses, which raises nothing and leads on to the full search.
C27_CacheKeying ==
    [][ /\ cPc = "cache" =>
              \/ /\ cPc' = "finally"
                 /\ ReturnsMatchingEntry
                 /\ NothingPerformed'
              \/ /\ cPc' = "intent"
                 /\ result' = NoSearchResult
        /\ (cPc = "finally" /\ NothingPerformed) =>
              (cPc' = "completed" /\ NothingPerformed')
      ]_vars

\* C27 witness: a call has been answered from the cache with the result of
\* an earlier call whose message differed in case only.
C27_Witness ==
    /\ cPc = "completed"
    /\ NothingPerformed
    /\ result # NoSearchResult
    /\ \E e \in cacheStore.entries :
          /\ e.data = result
          /\ e.storedFor.userQuery # userQuery

\* The positions of the elements of the page that yield a product.
ExtractablePositions ==
    {i \in 1..Len(elements) : Extractable(elements[i])}

\* C28: what scrapeWithCheerio returns for a static target has at most 10
\* products, and they are the products of the first 10 extractable elements
\* of the page, in page order.
C28_StaticTargetCap ==
    nPc = "cheerioReturned" =>
        /\ Len(returned) <= 10
        /\ Len(returned) = IF Cardinality(ExtractablePositions) < 10
                          THEN Cardinality(ExtractablePositions)
                          ELSE 10
        /\ \A n \in 1..Len(returned) :
              returned[n].name = ItemName(NthOf(ExtractablePositions, n))

\* C28 witness: a page with more than 10 extractable elements, one of the
\* first 10 elements not among them, has been scraped.
C28_Witness ==
    /\ nPc = "cheerioReturned"
    /\ Cardinality(ExtractablePositions) > 10
    /\ \E i \in 1..10 : i \notin ExtractablePositions
    /\ Len(returned) = 10

----------------------------------------------------------------------------
(* The target registry on catalogs other than the configured one.          *)

MaxCatalog == 3

RegistryIds == << "f1-authentics", "redbull-shop", "ebay", "fanatics" >>

Priorities == {0, 8, 10}

\* Catalogs of up to MaxCatalog entries with distinct ids, any priorities
\* and any enabled flags.
Catalogs ==
    UNION { { [k \in 1..n |->
                 [id |-> RegistryIds[k], name |-> RegistryIds[k],
                  enabled |-> on[k], priority |-> pr[k],
                  requiresJavaScript |-> FALSE]] :
                on \in [1..n -> BOOLEAN], pr \in [1..n -> Priorities] } :
            n \in 0..MaxCatalog }

LookedUpIds == Range(RegistryIds) \cup {"amazon"}

\* filter returns a new array and sort sorts that array in place: the
\* catalog array is as it was.
CatalogAfterListing(catalog) == catalog

registryFrame ==
    <<nPc, aiReply, aiResult, rawListing, clock, built, elements, returned,
      orchVars, searchVars, coordVars, fetchVars, apiVars, serviceVars>>

\* a call of getEnabledTargets()
ListEnabled ==
    /\ nPc = "registry"
    /\ listed' = EnabledTargetsOf(registry)
    /\ registry' = CatalogAfterListing(registry)
    /\ UNCHANGED <<found, registryFrame>>

\* a call of getTargetById(id)
FindById ==
    /\ nPc = "registry"
    /\ \E id \in LookedUpIds : found' = << id, getTargetById(registry, id) >>
    /\ UNCHANGED <<registry, listed, registryFrame>>

InitRegistry ==
    /\ RestIdle
    /\ nPc = "registry"
    /\ aiReply = [kind |-> "none", value |-> Undefined]
    /\ aiResult = NoAIResult
    /\ rawListing = NoRawListing
    /\ clock = 0
    /\ built = <<>>
    /\ elements = <<>>
    /\ returned = <<>>
    /\ registry \in Catalogs
    /\ listed = <<>>
    /\ found = <<>>
    /\ ApiIdle
    /\ ServiceIdle

NextRegistry == ListEnabled \/ FindById

SpecRegistry == InitRegistry /\ [][NextRegistry]_vars

\* The positions of the enabled entries of the catalog.
EnabledPositions == {k \in 1..Len(registry) : registry[k].enabled}

\* C29: a call of getEnabledTargets returns the enabled entries of the
\* catalog, each once, in non-increasing priority order and, among equal
\* priorities, in catalog order; a call of getTargetById returns the entry
\* with that id, or undefined when there is none; neither call changes the
\* catalog.
C29_TargetRegistry ==
    [][ /\ registry' = registry
        /\ listed' # listed =>
              \E pos \in [1..Len(listed') -> EnabledPositions] :
                 /\ \A k \in EnabledPositions : \E n \in DOMAIN pos : pos[n] = k
                 /\ Len(listed') = Cardinality(EnabledPositions)
                 /\ \A n \in DOMAIN pos : listed'[n] = registry[pos[n]]
                 /\ \A m, n \in DOMAIN pos :
                       m < n =>
                          \/ listed'[m].priority > listed'[n].priority
                          \/ /\ listed'[m].priority = listed'[n].priority
                             /\ pos[m] < pos[n]
        /\ found' # found =>
              LET id == found'[1]
                  entry == found'[2]
              IN  IF \E k \in 1..Len(registry) : registry[k].id = id
                  THEN /\ Len(entry) = 1
                       /\ entry[1].id = id
                       /\ \E k \in 1..Len(registry) : registry[k] = entry[1]
                  ELSE entry = <<>>
      ]_vars

\* C29 witness: a catalog with two enabled entries of equal priority in
\* front of an enabled entry of higher priority has been listed, and an id
\* it does not have has been looked up.
C29_Witness ==
    /\ Len(registry) = 3
    /\ Len(listed) = 3
    /\ registry[1].priority = registry[2].priority
    /\ registry[3].priority > registry[1].priority
    /\ listed[1] = registry[3]
    /\ found = << "amazon", <<>> >>

----------------------------------------------------------------------------
(* A run of scrapeMultipleTargets with its scheduling: the call starts,    *)
(* every fetch in flight comes back with a result or an error, every       *)
(* backoff timer fires, and the continuation of the await runs once every  *)
(* promise has settled.                                                    *)

\* most targets of a run whose termination is followed
MaxLiveTargets == 2

InitLive ==
    /\ maxRetries = ConfigMaxRetries
    /\ baseDelay = ConfigRetryDelay
    /\ \E n \in 0..MaxLiveTargets : targets = SubSeq(SCRAPER_TARGETS, 1, n)
    /\ OrchIdle
    /\ SearchIdle

Fairness ==
    /\ WF_vars(StartAll)
    /\ WF_vars(ReturnResults)
    /\ \A k \in 1..MaxLiveTargets :
          /\ WF_vars(k \in Idx /\ FetchSettles(k))
          /\ WF_vars(k \in Idx /\ SleepEnds(k))

SpecLive == InitLive /\ [][Next]_vars /\ Fairness

\* The task of target k has succeeded or has used up its attempts.
TaskEnded(k) ==
    \/ retry[k].status = "returned"
    \/ /\ retry[k].status = "thrown"
       /\ retry[k].calls = maxRetries

\* C30: scrapeMultipleTargets eventually returns; when it has, every
\* target's task has succeeded or exhausted its retries; while it waits, a
\* task whose fetch is in flight or whose backoff sleep runs can take its
\* next step whatever the state of its siblings, and a step of one task
\* leaves the retry state and the promise of every other task as they were.
C30_Termination ==
    /\ <>(mainPc = "returned")
    /\ [](mainPc = "returned" => \A k \in Idx : TaskEnded(k))
    /\ [](mainPc = "awaiting" =>
             \A k \in Idx :
                /\ retry[k].status = "inflight" => ENABLED FetchSettles(k)
                /\ retry[k].status = "sleeping" => ENABLED SleepEnds(k))
    /\ [][ mainPc = "awaiting" =>
              \A k \in Idx :
                 retry'[k] # retry[k] =>
                    \A j \in Idx \ {k} :
                       retry'[j] = retry[j] /\ promise'[j] = promise[j]
         ]_vars

\* C30 witness: the call has returned with one task that succeeded after a
\* retry and another that failed on each of its attempts.
C30_Witness ==
    /\ mainPc = "returned"
    /\ \E j, k \in Idx :
          /\ retry[j].status = "thrown"
          /\ retry[j].calls = maxRetries
          /\ retry[k].status = "returned"
          /\ retry[k].calls > 1

----------------------------------------------------------------------------
(* The API handlers (pages/api/search.ts, pages/api/chat.ts): method       *)
(* check, rate limit, validation of the body, and the call of the search.  *)
(* Time is in milliseconds; each request reads the clock once.             *)

\* the defaults of checkRateLimit's maxRequests and windowMs parameters
DefaultMaxRequests == 20
DefaultWindowMs == 60000

\* Variant: a limit of 500 characters that is not allowed itself.
MessageOf500TooLong(m) == Len(m.text) >= 500

\* Variant: a rejected call that starts a new window.
RejectedRecord(record, now, windowMs) ==
    [record EXCEPT !.resetAt = now + windowMs]

\* return false leaves the record as it is
RecordAfterRejection(record, now, windowMs) == record

\* checkRateLimit(ip, maxRequests, windowMs) on the record of ip: whether
\* the request passes, and the record afterwards
checkRateLimit(record, now, maxRequests, windowMs) ==
    IF ~record.present \/ now > record.resetAt
    THEN [ok |-> TRUE,
          record |-> [present |-> TRUE, count |-> 1,
                      resetAt |-> now + windowMs]]
    ELSE IF record.count >= maxRequests
         THEN [ok |-> FALSE,
               record |-> RecordAfterRejection(record, now, windowMs)]
         ELSE [ok |-> TRUE, record |-> [record EXCEPT !.count = @ + 1]]

\* The message field of a request body: its JSON type and, for a string,
\* its text.
Message(type, text) == [type |-> type, text |-> text]

\* !message || typeof message !== 'string' || message.trim().length === 0
\* (trim leaves nothing exactly when every character is a blank)
MessageInvalid(m) ==
    \/ m.type # "string"
    \/ m.text = <<>>
    \/ \A i \in DOMAIN m.text : m.text[i] = " "

\* message.length > 500
MessageTooLong(m) == Len(m.text) > 500

\* The calls that passed the limiter within the window that ends now, with
\* the call of this instant added when it passed.
PassedWithin(bag, now, windowMs, ok) ==
    [t \in Instants |->
        IF now - t >= windowMs \/ t > now THEN 0
        ELSE bag[t] + (IF ok /\ t = now THEN 1 ELSE 0)]

apiFrame ==
    <<nPc, aiReply, aiResult, rawListing, built, elements, returned,
      registryVars, orchVars, searchVars, coordVars, fetchVars, serviceVars>>

\* The request (its ip, method and message field) and the response.
Responded(ip, method, m, status, code, searched) ==
    [ip |-> ip, method |-> method, message |-> m, status |-> status,
     code |-> code, searched |-> searched]

\* The handler of the search endpoint on one request, from its entry to its
\* response; searched tells whether searchProducts was called, and status is
\* the status of the response when it was: 200, or 500 when it threw.
SearchRequest(ip, method, m, now, status) ==
    /\ nPc = "api"
    /\ now >= clock
    /\ clock' = now
    /\ IF method = "OPTIONS"
       THEN /\ response' = Responded(ip, method, m, 200, "", FALSE)
            /\ UNCHANGED <<requestCounts, passed>>
       ELSE IF method # "POST"
       THEN /\ response' = Responded(ip, method, m, 405,
                                     "METHOD_NOT_ALLOWED", FALSE)
            /\ UNCHANGED <<requestCounts, passed>>
       ELSE LET checked == checkRateLimit(requestCounts[ip], now,
                                          DefaultMaxRequests, DefaultWindowMs)
            IN  /\ requestCounts' = [requestCounts EXCEPT
                                        ![ip] = checked.record]
                /\ passed' = [passed EXCEPT
                                 ![ip] = PassedWithin(@, now, DefaultWindowMs,
                                                      checked.ok)]
                /\ IF ~checked.ok
                   THEN response' = Responded(ip, method, m, 429,
                                              "RATE_LIMIT_EXCEEDED", FALSE)
                   ELSE IF MessageInvalid(m)
                   THEN response' = Responded(ip, method, m, 400,
                                              "INVALID_REQUEST", FALSE)
                   ELSE IF MessageTooLong(m)
                   THEN response' = Responded(ip, method, m, 400,
                                              "MESSAGE_TOO_LONG", FALSE)
                   ELSE response' =
                            Responded(ip, method, m, status,
                                      IF status = 200 THEN ""
                                      ELSE "INTERNAL_SERVER_ERROR", TRUE)
    /\ UNCHANGED <<limiterStore, apiFrame>>

ValidMessage == Message("string", <<"c", "a", "p">>)

\* The handlers from the start of the process; everything else at rest.
InitApi ==
    /\ RestIdle
    /\ nPc = "api"
    /\ aiReply = [kind |-> "none", value |-> Undefined]
    /\ aiResult = NoAIResult
    /\ rawListing = NoRawListing
    /\ clock = 0
    /\ built = <<>>
    /\ elements = <<>>
    /\ returned = <<>>
    /\ registry = <<>>
    /\ listed = <<>>
    /\ found = <<>>
    /\ ApiIdle
    /\ ServiceIdle

\* POST requests with a valid message whose search succeeds, from any of
\* the clients at any of the instants.
NextLimit ==
    \E ip \in ClientIps, now \in Instants :
        SearchRequest(ip, "POST", ValidMessage, now, 200)

SpecLimit == InitApi /\ [][NextLimit]_vars

SumOver(f, S) == SumSeq([i \in 1..Cardinality(S) |-> f[NthOf(S, i)]])

\* C31: for every ip, at most 20 requests pass the rate-limit check within
\* any 60 seconds, and a request that does not pass is answered 429
\* RATE_LIMIT_EXCEEDED without a search.
C31_RateLimit ==
    /\ \A ip \in ClientIps :
          SumOver(passed[ip], Instants) <= DefaultMaxRequests
    /\ response.status = 429 =>
          response.code = "RATE_LIMIT_EXCEEDED" /\ ~response.searched

----------------------------------------------------------------------------
(* The validation of the handler: any method and any message, at one       *)
(* instant.                                                                *)

Methods == {"OPTIONS", "GET", "PUT", "POST"}

Repeated(c, n) == [i \in 1..n |-> c]

\* Message fields: missing, a number, the empty string, blanks, a query,
\* a query between blanks, 500 and 501 letters, 501 blanks.
Messages ==
    { Message("undefined", <<>>), Message("number", <<>>),
      Message("string", <<>>), Message("string", << " ", " " >>),
      ValidMessage, Message("string", << " " >> \o <<"c", "a", "p">> \o << " " >>),
      Message("string", Repeated("a", 500)),
      Message("string", Repeated("a", 501)),
      Message("string", Repeated(" ", 501)) }

NextValidate ==
    \E ip \in ClientIps, method \in Methods, m \in Messages,
       status \in {200, 500} :
        SearchRequest(ip, method, m, 0, status)

SpecValidate == InitApi /\ [][NextValidate]_vars

\* The request of this step was a POST that passed the rate-limit check.
AdmittedPost ==
    /\ response'.method = "POST"
    /\ response'.status # 429

----------------------------------------------------------------------------
(* retryWithBackoff on an operation that succeeds after k failures.        *)

\* C33: when retryWithBackoff returns, after k failed calls of fn with
\* k < maxRetries, fn has been invoked exactly k + 1 times, exactly k
\* sleeps have been taken, of baseDelay, 2 * baseDelay, ... in that order,
\* and the value returned is that of the successful call; once it has
\* returned, neither an invocation nor a sleep follows.
C33_SuccessAfterFailures ==
    [][ LET r == retry[1]
            q == retry'[1]
            k == Len(q.sleeps)
        IN  /\ (mainPc = "retryOnly" /\ q.status = "returned") =>
                  /\ k < maxRetries
                  /\ q.calls = k + 1
                  /\ q.i = k
                  /\ \A j \in 1..k : q.sleeps[j] = baseDelay * 2 ^ (j - 1)
                  /\ lastOutcome'[1].ok
                  /\ q.value = lastOutcome'[1].products
                  /\ r.status = "inflight"
                  /\ r.calls = q.calls /\ r.sleeps = q.sleeps
            /\ (mainPc = "retryOnly" /\ r.status = "returned") => q = r
      ]_vars

\* C33 witness: the third call succeeded after two failures and two sleeps.
C33_Witness ==
    /\ mainPc = "retryOnly"
    /\ retry[1].status = "returned"
    /\ retry[1].calls = 3
    /\ retry[1].sleeps = <<baseDelay, 2 * baseDelay>>
    /\ retry[1].value # <<>>
    /\ maxRetries > 3

----------------------------------------------------------------------------
(* The order of the outcomes of scrapeMultipleTargets.                     *)

\* C34: the outcome at position i of the list scrapeMultipleTargets returns
\* is the outcome of the target at position i of its input: it carries that
\* target's display name and is the value that target's own task settled
\* with, in whatever order the tasks settled.
C34_InputOrder ==
    mainPc = "returned" =>
        \A i \in Idx :
            /\ scraperResults[i].source = targets[i].name
            /\ promise[i].status = "fulfilled" =>
                  scraperResults[i] = promise[i].value
            /\ scraperResults[i].success = lastOutcome[i].ok
            /\ scraperResults[i].products = lastOutcome[i].products

\* C34 witness: a returned run whose last target settled first, with a
\* success, while the first target settled last, with a failure.
C34_Witness ==
    /\ mainPc = "returned"
    /\ Len(targets) >= 2
    /\ settleOrder[1] = Len(targets)
    /\ settleOrder[Len(targets)] = 1
    /\ scraperResults[Len(targets)].success
    /\ scraperResults[Len(targets)].products # <<>>
    /\ ~scraperResults[1].success

----------------------------------------------------------------------------
(* Two searchProducts calls in flight at once in one process.  Both use    *)
(* the exported scraperService, so they share its browser field.  Call r   *)
(* has one rendered target, whose fetch is task r of fetch.                *)

Requests == {1, 2}

sharedFrame ==
    <<nPc, aiReply, aiResult, rawListing, clock, built, elements, returned,
      registryVars, apiVars, timedCache, got, orchVars, searchVars,
      coordVars, f1Browser, aiBrowser, traversal>>

BrowserOpen(id) == \E b \in openBrowsers : b.id = id

\* The positions at which an attempt uses the browser handle it obtained
\* from initializeBrowser, or the page it opened on it.
UsesBrowser == {"newPage", "goto", "extract"}

\* Call r reaches scrapeMultipleTargets: its fetch runs to its first
\* suspension.
RequestScrapes(r) ==
    /\ reqPc[r] = "entry"
    /\ reqPc' = [reqPc EXCEPT ![r] = "scraping"]
    /\ fetch' = [fetch EXCEPT ![r] = Begun(@)]
    /\ UNCHANGED <<browser, openBrowsers, openPages, sharedFrame>>

\* An operation on a browser that has been closed rejects: control goes to
\* the catch block of the fetcher.
BrowserGone(r) ==
    /\ reqPc[r] = "scraping"
    /\ fetch[r].pc \in UsesBrowser
    /\ ~BrowserOpen(fetch[r].handle)
    /\ fetch' = [fetch EXCEPT ![r].errors = @ \cup {"closed"},
                              ![r].pc = "catch"]
    /\ UNCHANGED <<reqPc, browser, openBrowsers, openPages, sharedFrame>>

\* A step of the fetch of call r on a browser that is open.
FetchStep(r) ==
    /\ reqPc[r] = "scraping"
    /\ fetch[r].pc \in UsesBrowser => BrowserOpen(fetch[r].handle)
    /\ \/ Launch(r)
       \/ NewPage(r)
       \/ Goto(r)
       \/ Extract(r)
       \/ Catch(r)
       \/ Reattempt(r)

\* scrapeMultipleTargets returns to call r, the result is built and control
\* reaches the finally block.
RequestSettles(r) ==
    /\ reqPc[r] = "scraping"
    /\ fetch[r].pc = "done"
    /\ reqPc' = [reqPc EXCEPT ![r] = "finally"]
    /\ UNCHANGED <<fetch, browser, openBrowsers, openPages, sharedFrame>>

\* closeBrowser, called from the finally block of call r:
\* if (this.browser) { await this.browser.close(); ...
CloseBegins(r) ==
    /\ reqPc[r] = "finally"
    /\ IF browser = 0
       THEN /\ reqPc' = [reqPc EXCEPT ![r] = "completed"]
            /\ UNCHANGED openBrowsers
       ELSE /\ reqPc' = [reqPc EXCEPT ![r] = "closing"]
            /\ openBrowsers' = ClosedBrowsers(openBrowsers, "puppeteer",
                                              browser)
    /\ UNCHANGED <<fetch, browser, openPages, sharedFrame>>

\* ... this.browser = null; }
CloseEnds(r) ==
    /\ reqPc[r] = "closing"
    /\ browser' = 0
    /\ reqPc' = [reqPc EXCEPT ![r] = "completed"]
    /\ UNCHANGED <<fetch, openBrowsers, openPages, sharedFrame>>

InitShared ==
    /\ maxRetries = ConfigMaxRetries
    /\ baseDelay = ConfigRetryDelay
    /\ targets = <<>>
    /\ OrchIdle
    /\ enabled = [k \in 1..Len(SCRAPER_TARGETS) |-> SCRAPER_TARGETS[k].enabled]
    /\ sPc = "none"
    /\ searchQuery = <<>>
    /\ reqMaxResults = 0
    /\ maxResults = 0
    /\ allProducts = <<>>
    /\ successfulSources = <<>>
    /\ uniqueProducts = <<>>
    /\ sortedProducts = <<>>
    /\ finalProducts = <<>>
    /\ totalFound = 0
    /\ CoordIdle
    /\ fetch = [r \in Requests |-> NewTask("puppeteer")]
    /\ browser = 0
    /\ f1Browser = 0
    /\ aiBrowser = 0
    /\ openBrowsers = {}
    /\ openPages = {}
    /\ traversal = NoTraversal
    /\ nPc = "none"
    /\ aiReply = [kind |-> "none", value |-> Undefined]
    /\ aiResult = NoAIResult
    /\ rawListing = NoRawListing
    /\ clock = 0
    /\ built = <<>>
    /\ elements = <<>>
    /\ returned = <<>>
    /\ registry = <<>>
    /\ listed = <<>>
    /\ found = <<>>
    /\ ApiIdle
    /\ timedCache = [enabled |-> FALSE, ttl |-> 0, store |-> {}]
    /\ got = <<>>
    /\ reqPc = [r \in Requests |-> "entry"]

NextShared ==
    \E r \in Requests :
        \/ RequestScrapes(r)
        \/ FetchStep(r)
        \/ BrowserGone(r)
        \/ RequestSettles(r)
        \/ CloseBegins(r)
        \/ CloseEnds(r)

SpecShared == InitShared /\ [][NextShared]_vars

\* C35: while a searchProducts call has a rendered fetch under way on a
\* browser, the cleanup of another call does not close that browser, and no
\* fetch fails on a browser that was closed under it.
C35_NoCloseUnderFetch ==
    \A r \in DOMAIN reqPc :
        /\ (reqPc[r] = "scraping" /\ fetch[r].pc \in UsesBrowser) =>
              BrowserOpen(fetch[r].handle)
        /\ "closed" \notin fetch[r].errors

----------------------------------------------------------------------------
(* A search whose fetches are followed one by one: the steps of            *)
(* retryWithBackoff of each target, then the consolidation.                *)

NextEmpty ==
    \/ GetTargets
    \/ StartAll
    \/ \E k \in Idx : FetchSettles(k)
    \/ \E k \in Idx : SleepEnds(k)
    \/ ReturnResults
    \/ CollectProducts
    \/ RemoveDuplicatesStep
    \/ SortStep
    \/ SliceStep

SpecEmpty == InitSearch /\ [][NextEmpty]_vars

\* The fetch of target k comes back in this step without error and with no
\* product.
SettlesEmpty(k) ==
    /\ retry[k].status = "inflight"
    /\ retry'[k] # retry[k]
    /\ lastOutcome'[k].ok
    /\ lastOutcome'[k].products = <<>>

\* C36: a fetch that comes back without error and with no product ends the
\* retry call of its target at once, with no further call and no sleep; the
\* outcome of the target is success = true with an empty product list; a
\* finished retry call takes no further step; and the target is not among
\* the sources of the search.
C36_EmptyFetchIsSuccess ==
    [][ /\ \A k \in DOMAIN retry :
              /\ SettlesEmpty(k) =>
                    /\ retry'[k].status = "returned"
                    /\ retry'[k].calls = retry[k].calls
                    /\ retry'[k].sleeps = retry[k].sleeps
                    /\ promise'[k].status = "fulfilled"
                    /\ promise'[k].value.success = TRUE
                    /\ promise'[k].value.products = <<>>
              /\ retry[k].status = "returned" => retry'[k] = retry[k]
        /\ sPc' \in {"dedup", "sort", "slice", "done"} =>
              \A k \in 1..Len(targets') :
                  (lastOutcome'[k].ok /\ lastOutcome'[k].products = <<>>) =>
                      /\ scraperResults'[k].success = TRUE
                      /\ scraperResults'[k].products = <<>>
                      /\ targets'[k].name \notin Range(successfulSources')
      ]_vars

\* C36 witness: a search has ended in which one target's first fetch came
\* back empty, and was its only fetch, while another target contributed.
C36_Witness ==
    /\ sPc = "done"
    /\ \E k, j \in 1..Len(scraperResults) :
          /\ scraperResults[k].success
          /\ scraperResults[k].products = <<>>
          /\ retry[k].calls = 1
          /\ retry[k].sleeps = <<>>
          /\ targets[k].name \notin Range(successfulSources)
          /\ targets[j].name \in Range(successfulSources)

----------------------------------------------------------------------------
(* The Cache object (utils/cache.ts) against the clock.  timedCache holds  *)
(* its enabled flag, its ttl in milliseconds and its store, a set of       *)
(* entries with one entry per key at most.                                 *)

\* parseInt(process.env.CACHE_TTL_SECONDS || '300', 10)
DefaultTtlSeconds == 300

\* The configured lifetimes, in seconds: the default and a short one.
TtlSeconds == {DefaultTtlSeconds, 1}

\* The ttl argument of set, in milliseconds; 0 stands for the argument left
\* out, as in searchProducts, and for every other falsy value.
SetTtls == {0, 1000}

CacheInstants == {0, 1000, 1001, 300000, 300001}

ExpiryKeys == {"k1", "k2"}

ExpiryData == {"r1", "r2"}

EntriesOf(c, key) == {e \in c.store : e.key = key}

\* Variant: an expired entry that is reported absent and left in the store.
StoreKeepingExpired(store, e) == store

\* this.store.delete(key)
StoreAfterExpiry(store, e) == store \ {e}

\* get(key) at the instant now: the value returned, <<>> for null, and the
\* cache afterwards.
get(c, key, now) ==
    IF ~c.enabled THEN [value |-> <<>>, removed |-> FALSE, cache |-> c]
    ELSE IF EntriesOf(c, key) = {}
    THEN [value |-> <<>>, removed |-> FALSE, cache |-> c]
    ELSE LET entry == CHOOSE e \in EntriesOf(c, key) : TRUE
         IN  IF now > entry.expiresAt
             THEN [value |-> <<>>, removed |-> TRUE,
                   cache |-> [c EXCEPT
                                 !.store = StoreAfterExpiry(@, entry)]]
             ELSE [value |-> << entry.data >>, removed |-> FALSE,
                   cache |-> c]

\* set(key, data, ttl) at the instant now.
set(c, key, data, ttl, now) ==
    IF ~c.enabled THEN c
    ELSE [c EXCEPT
             !.store = (@ \ EntriesOf(c, key))
                           \cup {[key |-> key, data |-> data,
                                  timestamp |-> now,
                                  expiresAt |-> now + (IF ttl # 0 THEN ttl
                                                       ELSE c.ttl)]}]

expiryFrame ==
    <<nPc, aiReply, aiResult, rawListing, built, elements, returned,
      registryVars, apiVars, reqPc, orchVars, searchVars, coordVars,
      fetchVars>>

Get(key, now) ==
    /\ nPc = "cache"
    /\ now >= clock
    /\ clock' = now
    /\ timedCache' = get(timedCache, key, now).cache
    /\ got' = << [op |-> "get", key |-> key, now |-> now,
                  value |-> get(timedCache, key, now).value,
                  removed |-> get(timedCache, key, now).removed] >>
    /\ UNCHANGED expiryFrame

Set(key, data, ttl, now) ==
    /\ nPc = "cache"
    /\ now >= clock
    /\ clock' = now
    /\ timedCache' = set(timedCache, key, data, ttl, now)
    /\ got' = << [op |-> "set", key |-> key, now |-> now,
                  value |-> << data >>, removed |-> FALSE] >>
    /\ UNCHANGED expiryFrame

InitExpiry ==
    /\ RestIdle
    /\ nPc = "cache"
    /\ aiReply = [kind |-> "none", value |-> Undefined]
    /\ aiResult = NoAIResult
    /\ rawListing = NoRawListing
    /\ clock = 0
    /\ built = <<>>
    /\ elements = <<>>
    /\ returned = <<>>
    /\ registry = <<>>
    /\ listed = <<>>
    /\ found = <<>>
    /\ ApiIdle
    /\ reqPc = <<>>
    /\ \E on \in BOOLEAN, seconds \in TtlSeconds :
          timedCache = [enabled |-> on, ttl |-> seconds * 1000,
                        store |-> {}]
    /\ got = <<>>

NextExpiry ==
    \E key \in ExpiryKeys, now \in CacheInstants :
        \/ Get(key, now)
        \/ \E data \in ExpiryData, ttl \in SetTtls :
              Set(key, data, ttl, now)

SpecExpiry == InitExpiry /\ [][NextExpiry]_vars

\* The step is a call of get or of set.
CacheCalled(op) ==
    /\ got' # <<>>
    /\ got'[1].op = op
    /\ got' # got \/ timedCache' # timedCache

\* C37: with caching enabled, an entry expires at its set time plus the
\* ttl (of the call, or else the configured one); get returns an entry only
\* up to its expiry time, and a get after it reports absent and leaves no
\* entry of the key in the store; the other keys keep their entries.  With
\* caching disabled get reports absent and neither get nor set changes the
\* store.
C37_CacheExpiry ==
    [][ /\ ~timedCache.enabled =>
              /\ timedCache' = timedCache
              /\ CacheCalled("get") => got'[1].value = <<>>
        /\ (timedCache.enabled /\ CacheCalled("get")) =>
              LET g == got'[1] IN
              /\ g.value # <<>> =>
                    \E e \in EntriesOf(timedCache, g.key) :
                        /\ g.value = << e.data >>
                        /\ g.now <= e.expiresAt
              /\ \A e \in EntriesOf(timedCache, g.key) :
                    g.now > e.expiresAt =>
                        /\ g.value = <<>>
                        /\ EntriesOf(timedCache', g.key) = {}
              /\ \A k \in ExpiryKeys \ {g.key} :
                    EntriesOf(timedCache', k) = EntriesOf(timedCache, k)
        /\ (timedCache.enabled /\ CacheCalled("set")) =>
              LET g == got'[1] IN
              \A e \in EntriesOf(timedCache', g.key) :
                  /\ e.timestamp = g.now
                  /\ e.expiresAt - e.timestamp \in
                         {timedCache.ttl} \cup (SetTtls \ {0})
      ]_vars

\* C37 witness: with the default lifetime, a get later than 300 seconds
\* after the set has reported absent and removed the entry, while the entry
\* of the other key is still stored.
C37_Witness ==
    /\ timedCache.enabled
    /\ timedCache.ttl = DefaultTtlSeconds * 1000
    /\ got # <<>>
    /\ got[1].op = "get"
    /\ got[1].removed
    /\ got[1].now = 300001
    /\ EntriesOf(timedCache, got[1].key) = {}
    /\ timedCache.store # {}

----------------------------------------------------------------------------
(* searchProducts over the Cache object and the clock: the lookup, the     *)
(* store after the summary, and a search that throws.                      *)

StoreInstants == {0, 300000, 300001}

\* Variant: a cached result that counts only when it has products.
HitWithProducts(value) == value # <<>> /\ value[1].products # <<>>

\* if (cached): a SearchResult object, whatever it holds.
CacheHit(value) == value # <<>>

storeFrame ==
    <<nPc, aiReply, aiResult, rawListing, built, elements, returned,
      registryVars, apiVars, reqPc>>

\* Lines 132-137 at the instant now.
LookupAt(now) ==
    /\ cPc = "cache"
    /\ now >= clock
    /\ clock' = now
    /\ LET looked == get(timedCache, CacheKey(userQuery, maxResults), now)
       IN  /\ timedCache' = looked.cache
           /\ got' = << [op |-> "get",
                         key |-> CacheKey(userQuery, maxResults),
                         now |-> now, value |-> looked.value,
                         removed |-> looked.removed] >>
           /\ IF CacheHit(looked.value)
              THEN /\ result' = looked.value[1]
                   /\ cPc' = "finally"
              ELSE /\ cPc' = "intent"
                   /\ UNCHANGED result
    /\ UNCHANGED <<userQuery, intentReply, intent, filteredProducts,
                   summaryReply, summary, cacheStore>>
    /\ UNCHANGED <<storeFrame, orchVars, searchVars, fetchVars>>

\* Step 10 to the return of line 246 at the instant now: the summary, the
\* result, cache.set(cacheKey, result).
SummaryStepAt(now) ==
    /\ cPc = "pipeline"
    /\ sPc = "done"
    /\ now >= clock
    /\ clock' = now
    /\ \E reply \in SummaryReplies :
          /\ summaryReply' = reply
          /\ summary' = generateResponse(reply, finalProducts,
                                         successfulSources)
    /\ result' = SearchResultOf(summary')
    /\ timedCache' = set(timedCache, CacheKey(userQuery, maxResults),
                         result', 0, now)
    /\ got' = << [op |-> "set", key |-> CacheKey(userQuery, maxResults),
                  now |-> now, value |-> << result' >>,
                  removed |-> FALSE] >>
    /\ cPc' = "finally"
    /\ UNCHANGED <<userQuery, intentReply, intent, filteredProducts,
                   cacheStore>>
    /\ UNCHANGED <<storeFrame, orchVars, searchVars, fetchVars>>

\* An exception on the way from step 3 to the return: the catch block logs
\* and rethrows it, and control reaches the finally block with no result.
SearchThrows ==
    /\ cPc = "pipeline"
    /\ cPc' = "finally"
    /\ UNCHANGED <<userQuery, intentReply, intent, filteredProducts,
                   summaryReply, summary, cacheStore, result>>
    /\ UNCHANGED <<normVars, orchVars, searchVars, fetchVars>>

InitStore ==
    /\ maxRetries = ConfigMaxRetries
    /\ baseDelay = ConfigRetryDelay
    /\ targets = <<>>
    /\ OrchIdle
    /\ FetchIdle
    /\ enabled \in [1..Len(SCRAPER_TARGETS) -> BOOLEAN]
    /\ Cardinality({k \in DOMAIN enabled : enabled[k]}) <= MaxCoordEnabled
    /\ sPc = "entry"
    /\ searchQuery = <<>>
    /\ reqMaxResults = 0
    /\ maxResults = HandlerMaxResults(reqMaxResults)
    /\ allProducts = <<>>
    /\ successfulSources = <<>>
    /\ uniqueProducts = <<>>
    /\ sortedProducts = <<>>
    /\ finalProducts = <<>>
    /\ totalFound = 0
    /\ cPc = "cache"
    /\ userQuery = QueryCap
    /\ intentReply = [kind |-> "none", intent |-> NoIntent]
    /\ intent = NoIntent
    /\ filteredProducts = <<>>
    /\ summaryReply = "none"
    /\ summary = NoSummary
    /\ cacheStore = [enabled |-> FALSE, entries |-> {}]
    /\ result = NoSearchResult
    /\ nPc = "none"
    /\ aiReply = [kind |-> "none", value |-> Undefined]
    /\ aiResult = NoAIResult
    /\ rawListing = NoRawListing
    /\ clock = 0
    /\ built = <<>>
    /\ elements = <<>>
    /\ returned = <<>>
    /\ registry = <<>>
    /\ listed = <<>>
    /\ found = <<>>
    /\ ApiIdle
    /\ reqPc = <<>>
    /\ \E on \in BOOLEAN :
          timedCache = [enabled |-> on, ttl |-> DefaultTtlSeconds * 1000,
                        store |-> {}]
    /\ got = <<>>

NextStore ==
    \/ \E now \in StoreInstants : LookupAt(now)
    \/ IntentStep
    \/ GetTargets
    \/ StartAll
    \/ \E k \in Idx : ScrapeTargetCompletes(k)
    \/ ReturnResults
    \/ CollectProducts
    \/ RemoveDuplicatesStep
    \/ SortStep
    \/ SliceStep
    \/ \E now \in StoreInstants : SummaryStepAt(now)
    \/ SearchThrows
    \/ Finally
    \/ NewRequest

SpecStore == InitStore /\ [][NextStore]_vars

\* The step is the throw of a search: it leaves the pipeline for the
\* finally block without a summary.
Threw ==
    /\ cPc = "pipeline"
    /\ cPc' = "finally"
    /\ summaryReply' = "none"

\* C38: with caching enabled, a search that returns, with or without
\* products, leaves its result in the cache under its key, to expire one
\* lifetime later; a lookup of the key up to that time ends the call with
\* that result and without intent extraction, scraping or summary; a search
\* that throws leaves the cache as it was.
C38_EmptyResultCached ==
    [][ LET key == CacheKey(userQuery, maxResults) IN
        /\ (timedCache.enabled /\ cPc = "pipeline" /\ cPc' = "finally"
               /\ ~Threw) =>
              \E e \in EntriesOf(timedCache', key) :
                  /\ e.data = result'
                  /\ e.expiresAt = clock' + timedCache.ttl
        /\ (timedCache.enabled /\ cPc = "cache" /\ cPc' # "cache") =>
              \A e \in EntriesOf(timedCache, key) :
                  clock' <= e.expiresAt =>
                      /\ cPc' = "finally"
                      /\ result' = e.data
                      /\ NothingPerformed'
        /\ Threw => timedCache' = timedCache
      ]_vars

\* C38 witness: a call has been answered from the cache, at the last
\* instant of the lifetime, with the result of a search in which no target
\* contributed a product.
C38_Witness ==
    /\ cPc = "completed"
    /\ NothingPerformed
    /\ result.products = <<>>
    /\ result.summary.kind # "none"
    /\ Cardinality({k \in DOMAIN enabled : enabled[k]}) > 0
    /\ got # <<>>
    /\ got[1].op = "get"
    /\ got[1].value = << result >>
    /\ got[1].now = 300000

----------------------------------------------------------------------------
(* Recovery from a rejection by checkRateLimit.                            *)

\* C39: a request that is rejected with 429 changes neither the stored
\* count nor the window end of any client; and a client whose last request
\* was rejected with 429 and whose next request comes one minute later or
\* more is admitted.
C39_Recovery ==
    [][ /\ response'.status = 429 => requestCounts' = requestCounts
        /\ (/\ response.status = 429
            /\ response'.ip = response.ip
            /\ clock' - clock >= DefaultWindowMs) =>
              response'.status # 429
      ]_vars

----------------------------------------------------------------------------
(* rateLimiter (lib/rateLimiter.ts): per ip, the timestamps of the calls   *)
(* that returned normally within the window.  limiterStore[ip] is the      *)
(* timestamps of the record of ip, <<>> when the Map has none.             *)

\* Number(process.env.RATE_LIMIT_WINDOW) || 1
WINDOW_MINUTES == 1

\* Number(process.env.RATE_LIMIT_MAX) || 10
MAX_REQUESTS == 10

WindowLength == WINDOW_MINUTES * 60 * 1000

\* Variant: a timestamp exactly one window old that is kept.
NotOlderThanWindow(now, ts) == now - ts <= WindowLength

\* ts => now - ts < WINDOW_MINUTES * 60 * 1000
YoungerThanWindow(now, ts) == now - ts < WindowLength

\* record.timestamps.filter(...)
Filtered(timestamps, now) ==
    SelectSeq(timestamps, LAMBDA ts : YoungerThanWindow(now, ts))

limiterFrame ==
    <<nPc, aiReply, aiResult, rawListing, built, elements, returned,
      registryVars, requestCounts, serviceVars, orchVars, searchVars,
      coordVars, fetchVars>>

\* One call of rateLimiter for ip at the instant now.  The record taken
\* from the Map is the stored object, so the filtered list is stored even
\* when the call throws.  A response status of 0: nothing was sent.
rateLimiter(ip, now) ==
    /\ nPc = "limiter"
    /\ now >= clock
    /\ clock' = now
    /\ LET kept == Filtered(limiterStore[ip], now) IN
       IF Len(kept) >= MAX_REQUESTS
       THEN /\ limiterStore' = [limiterStore EXCEPT ![ip] = kept]
            /\ passed' = [passed EXCEPT
                             ![ip] = PassedWithin(@, now, WindowLength,
                                                  FALSE)]
            /\ response' = [NoneYet EXCEPT
                               !.ip = ip, !.method = "thrown",
                               !.status = 429,
                               !.code = "Rate limit exceeded"]
       ELSE /\ limiterStore' = [limiterStore EXCEPT
                                   ![ip] = Append(kept, now)]
            /\ passed' = [passed EXCEPT
                             ![ip] = PassedWithin(@, now, WindowLength,
                                                  TRUE)]
            /\ response' = [NoneYet EXCEPT
                               !.ip = ip, !.method = "returned"]
    /\ UNCHANGED limiterFrame

InitSliding ==
    /\ RestIdle
    /\ nPc = "limiter"
    /\ aiReply = [kind |-> "none", value |-> Undefined]
    /\ aiResult = NoAIResult
    /\ rawListing = NoRawListing
    /\ clock = 0
    /\ built = <<>>
    /\ elements = <<>>
    /\ returned = <<>>
    /\ registry = <<>>
    /\ listed = <<>>
    /\ found = <<>>
    /\ ApiIdle
    /\ ServiceIdle

NextSliding == \E ip \in ClientIps, now \in Instants : rateLimiter(ip, now)

SpecSliding == InitSliding /\ [][NextSliding]_vars

\* C40: after every call of rateLimiter, the list of each ip has at most
\* MAX_REQUESTS timestamps and the list of the caller only timestamps
\* younger than the window; the calls of one ip that returned normally
\* within any window number at most MAX_REQUESTS; a call made when
\* MAX_REQUESTS calls of the ip have returned normally within the window
\* sends 429, throws and adds no timestamp, and any other call returns
\* normally and adds its own; the lists of the other ips are unchanged.
C40_SlidingWindow ==
    [][ LET ip == response'.ip
            before == SumOver(PassedWithin(passed[ip], clock',
                                           WindowLength, FALSE), Instants)
        IN  /\ \A c \in ClientIps :
                  /\ Len(limiterStore'[c]) <= MAX_REQUESTS
                  /\ SumOver(passed'[c], Instants) <= MAX_REQUESTS
            /\ \A j \in 1..Len(limiterStore'[ip]) :
                  clock' - limiterStore'[ip][j] < WindowLength
            /\ before >= MAX_REQUESTS =>
                  /\ response'.status = 429
                  /\ response'.method = "thrown"
                  /\ Len(limiterStore'[ip]) <= Len(limiterStore[ip])
            /\ before < MAX_REQUESTS =>
                  /\ response'.method = "returned"
                  /\ response'.status = 0
                  /\ limiterStore'[ip][Len(limiterStore'[ip])] = clock'
            /\ \A c \in ClientIps \ {ip} :
                  limiterStore'[c] = limiterStore[c]
      ]_vars

\* C40 witness: a call has been rejected at 60001 ms with a full list that
\* holds timestamps of 60000 and of 60001 ms, after earlier calls at 0 ms
\* had dropped out of the window; the other ip has a record of its own.
C40_Witness ==
    /\ nPc = "limiter"
    /\ response.status = 429
    /\ clock = 60001
    /\ Len(limiterStore[response.ip]) = MAX_REQUESTS
    /\ limiterStore[response.ip][1] = 60000
    /\ limiterStore[response.ip][MAX_REQUESTS] = 60001
    /\ \E c \in ClientIps \ {response.ip} :
          /\ limiterStore[c] # <<>>
          /\ limiterStore[c][1] = 0

====
